---- MODULE Spec2Model ----
(***************************************************************************)
(* BlackTrace: the atomic-swap settlement coordinator                      *)
(* (blacktrace-go/settlement-service/src/main.rs), the HTLC escrow         *)
(* contract (connectors/solana/htlc-contract/src/lib.rs) and the           *)
(* negotiation between two nodes (src/negotiation, src/cli, src/p2p).      *)
(*                                                                         *)
(* SpecCoordinator : the coordinator handling settlement requests and      *)
(*                   lock-status updates, with the notifications it        *)
(*                   publishes on the bus.                                 *)
(* SpecSelect      : the coordinator's select loop over its two            *)
(*                   subscriptions, whose messages arrive in any order;    *)
(*                   FairSelect adds that a waiting message is taken.      *)
(* SpecHTLC        : the on-chain escrow program, lock / claim / refund.   *)
(* SpecSession     : one NegotiationSession under its public methods.      *)
(* SpecEngine      : a NegotiationEngine and its table of sessions.        *)
(* SpecApp         : two BlackTraceApp nodes, their commands, the frames   *)
(*                   on the connection between them and their event loops. *)
(* SpecNode        : one BlackTraceApp node facing a remote peer that      *)
(*                   writes any frame and may disconnect.                  *)
(* SpecOrders      : one node creating orders while its clock runs.        *)
(* SpecLocks       : the network, negotiation and orders mutexes of one    *)
(*                   node, taken by its event loop and by the commands.    *)
(* SpecNetwork     : the NetworkManager byte by byte: connections, the     *)
(*                   peers and writer mutexes, the length-prefixed frames  *)
(*                   and the reader tasks; FairNetwork adds the fairness   *)
(*                   of the runtime.                                       *)
(***************************************************************************)
EXTENDS Integers, Sequences, FiniteSets, TLC

VARIABLES
    settlements,   \* SettlementService.settlements : proposal_id -> SettlementState
    published,     \* the notifications the bus accepted, in publication order
    utc_now,       \* Utc::now(), one tick per handled message
    inbox,         \* the messages delivered to the two subscriptions of the coordinator
    handled,       \* the message handled last, with the state it found
    htlc,          \* the program's HTLC accounts, one PDA per hash_lock
    lamports,      \* the lamports of the wallets
    clock,         \* Clock::get()?.unix_timestamp
    last,          \* the instruction executed last and what it returned
    pre_lock,      \* the wallets as they were before the last successful lock
    session,       \* a NegotiationSession used on its own
    active_sessions, \* NegotiationEngine.active_sessions : OrderID -> session
    sys_time,      \* SystemTime::now(), one tick per call
    called,        \* the operation called last and what it returned
    orders,        \* BlackTraceApp.orders of each node : OrderID -> announcement
    negotiation,   \* the active_sessions of each node's NegotiationEngine
    peers,         \* NetworkManager.peers of each node : PeerID -> the node reached
    wire,          \* the frames written on each connection and not yet read
    events,        \* the event channel of each node's NetworkManager
    scenario,      \* how far the commands given follow the happy negotiation
    conns,         \* the TCP connections made so far: who dialed whom
    table,         \* NetworkManager.peers of each manager : PeerID -> connection
    mutex,         \* the holders of the peers mutexes and of the writer mutexes
    stream,        \* the bytes written towards each end and not yet read there
    closed,        \* the connections that are broken
    reader,        \* where the reader task of each end of a connection is
    task,          \* where each task calling send_to_peer or broadcast is
    emitted,       \* the events each reader end has sent on its channel, in order
    passed,        \* the payloads handed to the writer of each end, in order
    returned,      \* what the send_to_peer or broadcast finished last returned
    guards,        \* the task holding each of the three mutexes of BlackTraceApp
    running        \* the line of app.rs each task of a node has reached

coordVars == <<settlements, published, utc_now, handled, inbox>>
htlcVars == <<htlc, lamports, clock, last, pre_lock>>
negVars == <<session, active_sessions, sys_time, called>>
vars == <<settlements, published, utc_now, handled, inbox,
          htlc, lamports, clock, last, pre_lock,
          session, active_sessions, sys_time, called,
          orders, negotiation, peers, wire, events, scenario,
          conns, table, mutex, stream, closed, reader, task, emitted, passed,
          returned, guards, running>>
netVars == <<conns, table, mutex, stream, closed, reader, task, emitted, passed,
             returned>>
appVars == <<orders, negotiation, peers, wire, events, scenario>>
lockVars == <<guards, running>>

----------------------------------------------------------------------------
(* Bounds of the model.                                                    *)

\* messages the coordinator handles in one behaviour
MaxEvents == 4
\* seeds of the random secrets (seed k stands for one outcome of the rng)
MaxSeed == 1
\* the chain's clock runs over 0..MaxTime
MaxTime == 1
\* lock amounts run over 0..MaxAmount
MaxAmount == 2
\* calls made on a session or on an engine in one behaviour
MaxCalls == 3
\* commands the users give to the two nodes in one behaviour
MaxCommands == 5
\* orders created in one behaviour
MaxOrders == 1
\* the frames of a remote peer written and not yet handled
MaxFrames == 2
\* the commands given to a node that faces a remote peer
MaxNodeCommands == 3
\* connections dialed and calls of send_to_peer or broadcast, in all
MaxNetOps == 3
\* the milliseconds that pass while a node creates orders
MaxMillis == 2

----------------------------------------------------------------------------
(* Bytes, hex and HASH160.                                                 *)

\* the secret is 32 bytes, HASH160 is 20 bytes, SHA256 is 32 bytes
SecretLen == 32
HashLen == 20
Sha256Len == 32

\* an order-insensitive checksum of a byte string
RECURSIVE ByteSum(_, _)
ByteSum(data, n) ==
    IF n = 0 THEN 0 ELSE (data[n] * data[n] + data[n] + 1) + ByteSum(data, n - 1)

\* Stand-ins for the two digests: deterministic, of the right output length,
\* and not injective (two inputs with the same bytes in another order collide).
Sha256(data) ==
    LET c == ByteSum(data, Len(data)) % 251
    IN  [j \in 1..Sha256Len |-> (c * j + j * j) % 256]

Ripemd160(data) ==
    LET c == ByteSum(data, Len(data)) % 241
    IN  [j \in 1..HashLen |-> (c * j + 5) % 256]

hash160(data) == Ripemd160(Sha256(data))

HexDigits == <<"0", "1", "2", "3", "4", "5", "6", "7",
               "8", "9", "a", "b", "c", "d", "e", "f">>

\* hex::encode : two lowercase hex digits per byte, high nibble first
hex_encode(bytes) ==
    [i \in 1..(2 * Len(bytes)) |->
        LET b == bytes[(i + 1) \div 2]
        IN  IF i % 2 = 1 THEN HexDigits[(b \div 16) + 1]
                         ELSE HexDigits[(b % 16) + 1]]

HexValue(d) == CHOOSE v \in 0..15 : HexDigits[v + 1] = d

\* hex::decode, for reading a published secret_hex back
hex_decode(str) ==
    [i \in 1..(Len(str) \div 2) |->
        16 * HexValue(str[2 * i - 1]) + HexValue(str[2 * i])]

\* what rand::thread_rng() may yield for the 32 bytes: one sequence per seed
RngBytes(seed) == [i \in 1..SecretLen |-> (37 * seed + 11 * i) % 256]

Seeds == 0..MaxSeed

----------------------------------------------------------------------------
(* The settlement coordinator.                                             *)

ProposalIds == {"p1", "p2"}

NoSettlement == [status |-> "absent"]

\* the actions of a SettlementStatusUpdate seen on settlement.status.*
Actions == {"alice_lock_zec", "bob_lock_usdc", "charlie_unlock"}

\* the SettlementRequest the Go layer sends for a proposal (amount * price
\* stays far below 2^64 for the requests modelled)
RequestFor(p) ==
    [proposal_id |-> p,
     order_id    |-> IF p = "p1" THEN "order1" ELSE "order2",
     maker_id    |-> "maker",
     taker_id    |-> "taker",
     amount      |-> 10,
     price       |-> 465]

\* nats_client.publish(subject, payload): the bus takes the message or fails
publish(msg, bus_failed) == IF bus_failed THEN published ELSE Append(published, msg)

SecretAndHash(seed) ==
    LET secret == RngBytes(seed)
        sha_hash == Sha256(secret)
        ripemd_hash == Ripemd160(sha_hash)
    IN  [secret |-> secret, hash_hex |-> hex_encode(ripemd_hash)]

\* the hash taken with SHA256 alone, the RIPEMD160 step forgotten
generate_secret_and_hash_sha_only(seed) ==
    LET secret == RngBytes(seed)
    IN  [secret |-> secret, hash_hex |-> hex_encode(Sha256(secret))]

\* every outcome of generate_secret_and_hash, computed once
SecretAndHashOf == [seed \in Seeds |-> SecretAndHash(seed)]

generate_secret_and_hash(seed) == SecretAndHashOf[seed]

publish_htlc_params(proposal_id, hash_hex, bus_failed) ==
    publish([subject          |-> <<"settlement.htlc", proposal_id>>,
             proposal_id      |-> proposal_id,
             htlc_hash        |-> hash_hex,
             instruction_type |-> "htlc_params",
             timestamp        |-> utc_now],
            bus_failed)

reveal_secret_for_claiming(settlement, bus_failed) ==
    publish([subject                   |-> <<"settlement.secret", settlement.proposal_id>>,
             proposal_id               |-> settlement.proposal_id,
             instruction_type          |-> "secret_reveal",
             secret_hex                |-> hex_encode(settlement.secret),
             hash_hex                  |-> settlement.hash_hex,
             alice_can_claim           |-> TRUE,
             bob_can_claim_after_alice |-> TRUE,
             timestamp                 |-> utc_now],
            bus_failed)

handle_settlement_request(request, seed, bus_failed) ==
    LET sh == generate_secret_and_hash(seed)
        settlement ==
            [proposal_id |-> request.proposal_id,
             order_id    |-> request.order_id,
             maker_id    |-> request.maker_id,
             taker_id    |-> request.taker_id,
             amount_zec  |-> request.amount,
             amount_usdc |-> request.amount * request.price,
             secret      |-> sh.secret,
             hash_hex    |-> sh.hash_hex,
             status      |-> "ready",
             zec_locked  |-> FALSE,
             usdc_locked |-> FALSE,
             created_at  |-> utc_now,
             updated_at  |-> utc_now]
    IN  /\ utc_now < MaxEvents
        /\ settlements' = [settlements EXCEPT ![request.proposal_id] = settlement]
        /\ published' = publish_htlc_params(request.proposal_id, sh.hash_hex, bus_failed)
        /\ handled' = [handler     |-> "request",
                       proposal_id |-> request.proposal_id,
                       action      |-> "none",
                       before      |-> settlements[request.proposal_id],
                       n_published |-> Len(published),
                       bus_failed  |-> bus_failed]
        /\ utc_now' = utc_now + 1
        /\ UNCHANGED <<htlcVars, negVars, appVars, netVars, lockVars>>

\* handle_status_update with an arm for the actions it does not know, which
\* notes the time of the update
handle_status_update_touching(update, bus_failed) ==
    LET p == update.proposal_id
        settlement == settlements[p]
    IN  /\ utc_now < MaxEvents
        /\ IF settlement # NoSettlement
           THEN IF update.action = "alice_lock_zec"
                THEN /\ settlements' =
                            [settlements EXCEPT ![p] =
                                [settlement EXCEPT !.zec_locked = TRUE,
                                                   !.status = "alice_locked",
                                                   !.updated_at = utc_now]]
                     /\ published' = published
                ELSE IF update.action = "bob_lock_usdc"
                THEN LET locked == [settlement EXCEPT !.usdc_locked = TRUE,
                                                      !.status = "both_locked",
                                                      !.updated_at = utc_now]
                     IN  /\ settlements' = [settlements EXCEPT ![p] = locked]
                         /\ published' = reveal_secret_for_claiming(locked, bus_failed)
                ELSE /\ settlements' =
                            [settlements EXCEPT ![p] =
                                [settlement EXCEPT !.updated_at = utc_now]]
                     /\ published' = published
           ELSE UNCHANGED <<settlements, published>>
        /\ handled' = [handler     |-> "status",
                       proposal_id |-> p,
                       action      |-> update.action,
                       before      |-> settlement,
                       n_published |-> Len(published),
                       bus_failed  |-> /\ settlement # NoSettlement
                                       /\ update.action = "bob_lock_usdc"
                                       /\ bus_failed]
        /\ utc_now' = utc_now + 1
        /\ UNCHANGED <<htlcVars, negVars, appVars, netVars, lockVars>>

handle_status_update(update, bus_failed) ==
    LET p == update.proposal_id
        settlement == settlements[p]
    IN  /\ utc_now < MaxEvents
        /\ IF settlement # NoSettlement
           THEN IF update.action = "alice_lock_zec"
                THEN /\ settlements' =
                            [settlements EXCEPT ![p] =
                                [settlement EXCEPT !.zec_locked = TRUE,
                                                   !.status = "alice_locked",
                                                   !.updated_at = utc_now]]
                     /\ published' = published
                ELSE IF update.action = "bob_lock_usdc"
                THEN LET locked == [settlement EXCEPT !.usdc_locked = TRUE,
                                                      !.status = "both_locked",
                                                      !.updated_at = utc_now]
                     IN  /\ settlements' = [settlements EXCEPT ![p] = locked]
                         /\ published' = reveal_secret_for_claiming(locked, bus_failed)
                ELSE UNCHANGED <<settlements, published>>
           ELSE UNCHANGED <<settlements, published>>
        /\ handled' = [handler     |-> "status",
                       proposal_id |-> p,
                       action      |-> update.action,
                       before      |-> settlement,
                       n_published |-> Len(published),
                       bus_failed  |-> /\ settlement # NoSettlement
                                       /\ update.action = "bob_lock_usdc"
                                       /\ bus_failed]
        /\ utc_now' = utc_now + 1
        /\ UNCHANGED <<htlcVars, negVars, appVars, netVars, lockVars>>

\* SettlementService::run : one message of either subscription per iteration
RunRequest ==
    /\ \E p \in ProposalIds, seed \in Seeds, bus_failed \in BOOLEAN :
            handle_settlement_request(RequestFor(p), seed, bus_failed)
    /\ UNCHANGED inbox

RunStatus ==
    /\ \E p \in ProposalIds, a \in Actions, bus_failed \in BOOLEAN :
            handle_status_update([proposal_id |-> p, action |-> a], bus_failed)
    /\ UNCHANGED inbox

\* the messages the bus can deliver: the settlement request of a proposal, on
\* settlement.request.*, and its status updates, on settlement.status.*
Messages ==
    [proposal_id : ProposalIds, action : {"request"} \cup Actions]

\* the bus delivers a message to the subscription of its subject, each message
\* once and no more messages than the coordinator handles in one behaviour
Deliver ==
    /\ Cardinality(inbox.delivered) < MaxEvents
    /\ \E msg \in Messages \ inbox.delivered :
            inbox' = [inbox EXCEPT
                        !.delivered = @ \cup {msg},
                        !.request = IF msg.action = "request" THEN Append(@, msg) ELSE @,
                        !.status = IF msg.action = "request" THEN @ ELSE Append(@, msg)]
    /\ UNCHANGED <<settlements, published, utc_now, handled>>
    /\ UNCHANGED <<htlcVars, negVars, appVars, netVars, lockVars>>

\* the select! of run takes the next message of the request subscription; the
\* bus accepts what the handler publishes
SelectRequest ==
    /\ inbox.request # <<>>
    /\ \E seed \in Seeds :
            handle_settlement_request(RequestFor(Head(inbox.request).proposal_id),
                                      seed, FALSE)
    /\ inbox' = [inbox EXCEPT !.request = Tail(@)]

\* the select! of run takes the next message of the status subscription
SelectStatus ==
    /\ inbox.status # <<>>
    /\ handle_status_update(Head(inbox.status), FALSE)
    /\ inbox' = [inbox EXCEPT !.status = Tail(@)]

InitCoordinator ==
    /\ inbox = [request |-> <<>>, status |-> <<>>, delivered |-> {}]
    /\ settlements = [p \in ProposalIds |-> NoSettlement]
    /\ published = <<>>
    /\ utc_now = 0
    /\ handled = [handler |-> "none", proposal_id |-> "none", action |-> "none",
                  before |-> NoSettlement, n_published |-> 0,
                  bus_failed |-> FALSE]

----------------------------------------------------------------------------
(* The HTLC escrow program.                                                *)

Pubkeys == {"alice", "bob"}

RECURSIVE Reverse(_)
Reverse(seq) == IF seq = <<>> THEN <<>> ELSE Append(Reverse(Tail(seq)), Head(seq))

\* the pre-images callers try: the swap's secret, a second pre-image of its
\* hash, and a secret with another hash
Secrets == {RngBytes(0), Reverse(RngBytes(0)), RngBytes(1)}

\* the hash_lock of the swap; its PDA is the escrow account followed
HashLocks == {hash160(RngBytes(0))}

NoAccount == [exists |-> FALSE]

\* Rent::minimum_balance(HTLCAccount::SIZE), which init takes from the payer
RentExemptMinimum == 1

\* lamports every wallet starts with: enough for one lock of the largest amount
InitialLamports == RentExemptMinimum + MaxAmount

Amounts == 0..MaxAmount
Timeouts == 0..(MaxTime + 1)

NoArgs == [receiver |-> "none", amount |-> 0, timeout |-> 0, secret |-> <<>>]

Executed(op, caller, hash_lock, args, err) ==
    [op        |-> op,
     caller    |-> caller,
     hash_lock |-> hash_lock,
     receiver  |-> args.receiver,
     amount    |-> args.amount,
     timeout   |-> args.timeout,
     secret    |-> args.secret,
     err       |-> err,
     accounts  |-> htlc,
     wallets   |-> lamports,
     now       |-> clock]

\* a failed instruction is rolled back: only its error is seen
Fails(op, caller, hash_lock, args, err) ==
    /\ last' = Executed(op, caller, hash_lock, args, err)
    /\ UNCHANGED <<htlc, lamports, clock, pre_lock>>

\* Lock accounts context: init creates the PDA of hash_lock, paid by sender
LockAccountsError(sender, hash_lock) ==
    IF htlc[hash_lock] # NoAccount THEN "AccountAlreadyInUse"
    ELSE IF lamports[sender] < RentExemptMinimum THEN "InsufficientFunds"
    ELSE "Ok"

\* the timeout check off by one: a timeout equal to now is accepted
LockError_timeout_now(sender, hash_lock, receiver, amount, timeout) ==
    IF LockAccountsError(sender, hash_lock) # "Ok"
        THEN LockAccountsError(sender, hash_lock)
    ELSE IF ~(timeout >= clock) THEN "InvalidTimeout"
    ELSE IF ~(amount > 0) THEN "InvalidAmount"
    ELSE IF lamports[sender] - RentExemptMinimum < amount THEN "InsufficientFunds"
    ELSE "Ok"

LockError(sender, hash_lock, receiver, amount, timeout) ==
    IF LockAccountsError(sender, hash_lock) # "Ok"
        THEN LockAccountsError(sender, hash_lock)
    ELSE IF ~(timeout > clock) THEN "InvalidTimeout"
    ELSE IF ~(amount > 0) THEN "InvalidAmount"
    ELSE IF lamports[sender] - RentExemptMinimum < amount THEN "InsufficientFunds"
    ELSE "Ok"

lock(sender, hash_lock, receiver, amount, timeout) ==
    LET args == [receiver |-> receiver, amount |-> amount,
                 timeout |-> timeout, secret |-> <<>>]
        err == LockError(sender, hash_lock, receiver, amount, timeout)
    IN  /\ IF err = "Ok"
           THEN /\ htlc' = [htlc EXCEPT ![hash_lock] =
                                [exists    |-> TRUE,
                                 hash_lock |-> hash_lock,
                                 sender    |-> sender,
                                 receiver  |-> receiver,
                                 amount    |-> amount,
                                 timeout   |-> timeout,
                                 claimed   |-> FALSE,
                                 refunded  |-> FALSE,
                                 lamports  |-> RentExemptMinimum + amount]]
                /\ lamports' = [lamports EXCEPT
                                    ![sender] = @ - RentExemptMinimum - amount]
                /\ last' = Executed("lock", sender, hash_lock, args, "Ok")
                /\ pre_lock' = lamports
                /\ UNCHANGED clock
           ELSE Fails("lock", sender, hash_lock, args, err)
        /\ UNCHANGED <<coordVars, negVars, appVars, netVars, lockVars>>

\* claim without the check of the refunded flag
ClaimError_no_refunded_check(caller, hash_lock, secret) ==
    LET a == htlc[hash_lock]
    IN  IF a = NoAccount THEN "AccountNotInitialized"
        ELSE IF a.claimed THEN "AlreadyClaimed"
        ELSE IF a.hash_lock # hash_lock THEN "HashMismatch"
        ELSE IF hash160(secret) # hash_lock THEN "InvalidSecret"
        ELSE IF caller # a.receiver THEN "NotReceiver"
        ELSE "Ok"

\* claim without the check that the caller is the receiver
ClaimError_no_receiver_check(caller, hash_lock, secret) ==
    LET a == htlc[hash_lock]
    IN  IF a = NoAccount THEN "AccountNotInitialized"
        ELSE IF a.claimed THEN "AlreadyClaimed"
        ELSE IF a.refunded THEN "AlreadyRefunded"
        ELSE IF a.hash_lock # hash_lock THEN "HashMismatch"
        ELSE IF hash160(secret) # hash_lock THEN "InvalidSecret"
        ELSE "Ok"

ClaimError(caller, hash_lock, secret) ==
    LET a == htlc[hash_lock]
    IN  IF a = NoAccount THEN "AccountNotInitialized"
        ELSE IF a.claimed THEN "AlreadyClaimed"
        ELSE IF a.refunded THEN "AlreadyRefunded"
        ELSE IF a.hash_lock # hash_lock THEN "HashMismatch"
        ELSE IF hash160(secret) # hash_lock THEN "InvalidSecret"
        ELSE IF caller # a.receiver THEN "NotReceiver"
        ELSE "Ok"

claim(caller, hash_lock, secret) ==
    LET a == htlc[hash_lock]
        args == [NoArgs EXCEPT !.secret = secret]
        err == ClaimError(caller, hash_lock, secret)
    IN  /\ IF err = "Ok"
           THEN /\ htlc' = [htlc EXCEPT ![hash_lock] =
                                [a EXCEPT !.claimed = TRUE,
                                          !.lamports = @ - a.amount]]
                /\ lamports' = [lamports EXCEPT ![caller] = @ + a.amount]
                /\ last' = Executed("claim", caller, hash_lock, args, "Ok")
                /\ UNCHANGED <<clock, pre_lock>>
           ELSE Fails("claim", caller, hash_lock, args, err)
        /\ UNCHANGED <<coordVars, negVars, appVars, netVars, lockVars>>

\* refund without the check of the claimed flag
RefundError_no_claimed_check(caller, hash_lock) ==
    LET a == htlc[hash_lock]
    IN  IF a = NoAccount THEN "AccountNotInitialized"
        ELSE IF a.refunded THEN "AlreadyRefunded"
        ELSE IF a.hash_lock # hash_lock THEN "HashMismatch"
        ELSE IF ~(clock >= a.timeout) THEN "TimeoutNotReached"
        ELSE IF caller # a.sender THEN "NotSender"
        ELSE "Ok"

\* refund without the check of the timeout
RefundError_no_timeout_check(caller, hash_lock) ==
    LET a == htlc[hash_lock]
    IN  IF a = NoAccount THEN "AccountNotInitialized"
        ELSE IF a.claimed THEN "AlreadyClaimed"
        ELSE IF a.refunded THEN "AlreadyRefunded"
        ELSE IF a.hash_lock # hash_lock THEN "HashMismatch"
        ELSE IF caller # a.sender THEN "NotSender"
        ELSE "Ok"

\* refund with the timeout compared strictly
RefundError_strict_timeout(caller, hash_lock) ==
    LET a == htlc[hash_lock]
    IN  IF a = NoAccount THEN "AccountNotInitialized"
        ELSE IF a.claimed THEN "AlreadyClaimed"
        ELSE IF a.refunded THEN "AlreadyRefunded"
        ELSE IF a.hash_lock # hash_lock THEN "HashMismatch"
        ELSE IF ~(clock > a.timeout) THEN "TimeoutNotReached"
        ELSE IF caller # a.sender THEN "NotSender"
        ELSE "Ok"

RefundError(caller, hash_lock) ==
    LET a == htlc[hash_lock]
    IN  IF a = NoAccount THEN "AccountNotInitialized"
        ELSE IF a.claimed THEN "AlreadyClaimed"
        ELSE IF a.refunded THEN "AlreadyRefunded"
        ELSE IF a.hash_lock # hash_lock THEN "HashMismatch"
        ELSE IF ~(clock >= a.timeout) THEN "TimeoutNotReached"
        ELSE IF caller # a.sender THEN "NotSender"
        ELSE "Ok"

refund(caller, hash_lock) ==
    LET a == htlc[hash_lock]
        err == RefundError(caller, hash_lock)
    IN  /\ IF err = "Ok"
           THEN /\ htlc' = [htlc EXCEPT ![hash_lock] =
                                [a EXCEPT !.refunded = TRUE,
                                          !.lamports = @ - a.amount]]
                /\ lamports' = [lamports EXCEPT ![caller] = @ + a.amount]
                /\ last' = Executed("refund", caller, hash_lock, NoArgs, "Ok")
                /\ UNCHANGED <<clock, pre_lock>>
           ELSE Fails("refund", caller, hash_lock, NoArgs, err)
        /\ UNCHANGED <<coordVars, negVars, appVars, netVars, lockVars>>

\* the chain's clock advances between transactions
Tick ==
    /\ clock < MaxTime
    /\ clock' = clock + 1
    /\ UNCHANGED <<htlc, lamports, last, pre_lock>>
    /\ UNCHANGED <<coordVars, negVars, appVars, netVars, lockVars>>

CallLock ==
    \E sender \in Pubkeys, h \in HashLocks, receiver \in Pubkeys,
       amount \in Amounts, timeout \in Timeouts :
        lock(sender, h, receiver, amount, timeout)

CallClaim ==
    \E caller \in Pubkeys, h \in HashLocks, secret \in Secrets :
        claim(caller, h, secret)

CallRefund ==
    \E caller \in Pubkeys, h \in HashLocks : refund(caller, h)

InitHTLC ==
    /\ htlc = [h \in HashLocks |-> NoAccount]
    /\ lamports = [k \in Pubkeys |-> InitialLamports]
    /\ clock = 0
    /\ last = [op |-> "none", caller |-> "none", hash_lock |-> <<>>,
               receiver |-> "none", amount |-> 0, timeout |-> 0, secret |-> <<>>,
               err |-> "Ok", accounts |-> htlc, wallets |-> lamports, now |-> 0]
    /\ pre_lock = lamports

----------------------------------------------------------------------------
(* Values on the wire: serde_json and the Blake2b digests.                 *)

None == [some |-> FALSE]
Some(v) == [some |-> TRUE, value |-> v]

\* serde_json::to_vec of a newtype struct around a String: a JSON string
to_vec_string(s) == [json |-> "string", value |-> s]

\* serde_json::to_vec of a struct with named fields: a JSON object
to_vec_struct(fields) == [json |-> "object", fields |-> fields]

\* bytes that are no JSON text at all
MalformedBytes == [json |-> "invalid"]

\* a derived Deserialize of a struct takes an object that has every field of
\* the struct and ignores the fields it does not know
from_slice_struct(data, names) ==
    IF data.json = "object" /\ names \subseteq DOMAIN data.fields
    THEN Some([k \in names |-> data.fields[k]])
    ELSE None

Roles == {"Maker", "Taker"}

from_slice_OrderID(data) ==
    IF data.json = "string" THEN Some(data.value) ELSE None

from_slice_Proposal(data) ==
    LET p == from_slice_struct(data, {"price", "amount", "proposer", "timestamp"})
    IN  IF p.some /\ p.value.proposer \in Roles THEN p ELSE None

from_slice_OrderDetails(data) ==
    from_slice_struct(data, {"order_id", "order_type", "amount",
                             "min_price", "max_price", "stablecoin"})

\* OrderID::generate : "order_" and the milliseconds since the epoch
OrderID_generate(now) == <<"order_", now>>

\* format!("peer_{}", addr)
PeerID(addr) == <<"peer_", addr>>

\* the Hash wrapper is 32 bytes, a signature is the first 32 bytes of a
\* Blake2b512 digest, which is 64 bytes
HashWrapperLen == 32
SignatureLen == 32
Blake2b512Len == 64

\* Stand-in for Blake2b512 over a byte string
Blake2b512(data) ==
    LET c == ByteSum(data, Len(data)) % 239
    IN  [j \in 1..Blake2b512Len |-> (c * j + 3 * j) % 256]

\* Hash::from_bytes : the first 32 bytes of the Blake2b512 digest
Hash_from_bytes(data) == SubSeq(Blake2b512(data), 1, HashWrapperLen)

\* the bytes of b"secret"
SecretLiteral == <<115, 101, 99, 114, 101, 116>>

\* the bytes over which a serialized SettlementTerms is digested: the numbers
\* of the terms, each reduced to one byte
TermsBytes(serialized) ==
    LET f == serialized.fields
    IN  <<f.zec_amount % 256, f.stablecoin_amount % 256, f.timelock_blocks % 256>>

----------------------------------------------------------------------------
(* The negotiation session (negotiation/session.rs, negotiation/types.rs). *)

DetailsRequested(timestamp) ==
    [tag |-> "DetailsRequested", timestamp |-> timestamp]
DetailsRevealed(details, timestamp) ==
    [tag |-> "DetailsRevealed", details |-> details, timestamp |-> timestamp]
PriceDiscovery(proposals) ==
    [tag |-> "PriceDiscovery", proposals |-> proposals]
TermsAgreed(settlement) ==
    [tag |-> "TermsAgreed", settlement |-> settlement]
Cancelled(reason) ==
    [tag |-> "Cancelled", reason |-> reason]

is_terminal(state) == state.tag \in {"TermsAgreed", "Cancelled"}

new_maker(order_id, taker_peer_id, now) ==
    [order_id             |-> order_id,
     local_role           |-> "Maker",
     counterparty_peer_id |-> taker_peer_id,
     state                |-> DetailsRequested(now),
     proposals            |-> <<>>,
     created_at           |-> now]

new_taker(order_id, maker_peer_id, now) ==
    [order_id             |-> order_id,
     local_role           |-> "Taker",
     counterparty_peer_id |-> maker_peer_id,
     state                |-> DetailsRequested(now),
     proposals            |-> <<>>,
     created_at           |-> now]

\* Result<()> of a method of the session, with the session it leaves
Ok(self) == [err |-> "Ok", self |-> self]
Err(err, self) == [err |-> err, self |-> self]

set_state(self, state) ==
    IF is_terminal(self.state) THEN Err("InvalidStateTransition", self)
    ELSE Ok([self EXCEPT !.state = state])

\* add_proposal without the check of the terminal state
add_proposal_unchecked(self, proposal) ==
    LET proposals == Append(self.proposals, proposal)
    IN  Ok([self EXCEPT !.proposals = proposals,
                        !.state = PriceDiscovery(proposals)])

add_proposal(self, proposal) ==
    IF is_terminal(self.state) THEN Err("InvalidStateTransition", self)
    ELSE LET proposals == Append(self.proposals, proposal)
         IN  Ok([self EXCEPT !.proposals = proposals,
                             !.state = PriceDiscovery(proposals)])

finalize(self, settlement) ==
    IF is_terminal(self.state) THEN Err("InvalidStateTransition", self)
    ELSE IF settlement.maker_signature = <<>> \/ settlement.taker_signature = <<>>
        THEN Err("InvalidProposal", self)
    ELSE Ok([self EXCEPT !.state = TermsAgreed(settlement)])

cancel(self, reason) == [self EXCEPT !.state = Cancelled(reason)]

\* latest_price reading the first proposal of the list
latest_price_first(self) ==
    IF self.proposals = <<>> THEN None
    ELSE Some(self.proposals[1].price)

latest_price(self) ==
    IF self.proposals = <<>> THEN None
    ELSE Some(self.proposals[Len(self.proposals)].price)

----------------------------------------------------------------------------
(* The negotiation engine (negotiation/engine.rs).                         *)

\* HashMap::insert
Insert(map, key, value) ==
    [k \in DOMAIN map \cup {key} |-> IF k = key THEN value ELSE map[k]]

\* what a method of the engine returns, with the sessions it leaves
Return(err, sessions, value) ==
    [err |-> err, active_sessions |-> sessions, value |-> value]

sign_terms(terms) ==
    LET serialized == to_vec_struct(terms)
        signature == Blake2b512(TermsBytes(serialized))
    IN  SubSeq(signature, 1, SignatureLen)

request_order_details(sessions, order_id, maker_peer_id, now) ==
    LET s == new_taker(order_id, maker_peer_id, now)
    IN  Return("Ok", Insert(sessions, order_id, s), to_vec_string(order_id))

reveal_order_details(sessions, order_id, details, taker_peer_id, now) ==
    LET entry == IF order_id \in DOMAIN sessions THEN sessions
                 ELSE Insert(sessions, order_id,
                             new_maker(order_id, taker_peer_id, now))
        r == set_state(entry[order_id], DetailsRevealed(details, now))
    IN  IF r.err # "Ok" THEN Return(r.err, entry, None)
        ELSE Return("Ok", Insert(entry, order_id, r.self), to_vec_struct(details))

\* propose_terms naming the maker as the proposer whatever the local role
propose_terms_as_maker(sessions, order_id, price, amount, now) ==
    IF order_id \notin DOMAIN sessions THEN Return("SessionNotFound", sessions, None)
    ELSE LET s == sessions[order_id]
             proposal == [price     |-> price,
                          amount    |-> amount,
                          proposer  |-> "Maker",
                          timestamp |-> now]
             r == add_proposal(s, proposal)
         IN  IF r.err # "Ok" THEN Return(r.err, sessions, None)
             ELSE Return("Ok", Insert(sessions, order_id, r.self),
                         to_vec_struct(proposal))

propose_terms(sessions, order_id, price, amount, now) ==
    IF order_id \notin DOMAIN sessions THEN Return("SessionNotFound", sessions, None)
    ELSE LET s == sessions[order_id]
             proposal == [price     |-> price,
                          amount    |-> amount,
                          proposer  |-> s.local_role,
                          timestamp |-> now]
             r == add_proposal(s, proposal)
         IN  IF r.err # "Ok" THEN Return(r.err, sessions, None)
             ELSE Return("Ok", Insert(sessions, order_id, r.self),
                         to_vec_struct(proposal))

accept_and_finalize(sessions, order_id, terms, now) ==
    LET signature == sign_terms(terms)
        signed == [terms           |-> terms,
                   maker_signature |-> signature,
                   taker_signature |-> signature,
                   finalized_at    |-> now]
    IN  IF order_id \notin DOMAIN sessions
            THEN Return("SessionNotFound", sessions, None)
        ELSE LET r == finalize(sessions[order_id], signed)
             IN  IF r.err # "Ok" THEN Return(r.err, sessions, None)
                 ELSE Return("Ok", Insert(sessions, order_id, r.self), signed)

\* handle_message looking the session up before it decodes the message
handle_message_session_first(sessions, order_id, message, now) ==
    IF order_id \notin DOMAIN sessions THEN Return("SessionNotFound", sessions, None)
    ELSE IF from_slice_Proposal(message).some
    THEN LET r == add_proposal(sessions[order_id],
                               from_slice_Proposal(message).value)
         IN  IF r.err # "Ok" THEN Return(r.err, sessions, None)
             ELSE Return("Ok", Insert(sessions, order_id, r.self),
                         "ProposalReceived")
    ELSE IF from_slice_OrderDetails(message).some
    THEN LET details == from_slice_OrderDetails(message).value
             r == set_state(sessions[order_id], DetailsRevealed(details, now))
         IN  IF r.err # "Ok" THEN Return(r.err, sessions, None)
             ELSE Return("Ok", Insert(sessions, order_id, r.self),
                         "DetailsReceived")
    ELSE Return("Ok", sessions, "Unknown")

handle_message(sessions, order_id, message, now) ==
    IF from_slice_Proposal(message).some
    THEN IF order_id \notin DOMAIN sessions
            THEN Return("SessionNotFound", sessions, None)
         ELSE LET r == add_proposal(sessions[order_id],
                                    from_slice_Proposal(message).value)
              IN  IF r.err # "Ok" THEN Return(r.err, sessions, None)
                  ELSE Return("Ok", Insert(sessions, order_id, r.self),
                              "ProposalReceived")
    ELSE IF from_slice_OrderDetails(message).some
    THEN IF order_id \notin DOMAIN sessions
            THEN Return("SessionNotFound", sessions, None)
         ELSE LET details == from_slice_OrderDetails(message).value
                  r == set_state(sessions[order_id], DetailsRevealed(details, now))
              IN  IF r.err # "Ok" THEN Return(r.err, sessions, None)
                  ELSE Return("Ok", Insert(sessions, order_id, r.self),
                              "DetailsReceived")
    ELSE Return("Ok", sessions, "Unknown")

cancel_negotiation(sessions, order_id, reason) ==
    IF order_id \notin DOMAIN sessions THEN Return("SessionNotFound", sessions, None)
    ELSE Return("Ok", Insert(sessions, order_id, cancel(sessions[order_id], reason)),
                None)

----------------------------------------------------------------------------
(* Calls on a session and on an engine.                                    *)

\* the prices proposed: the u64 lower edge and the two prices of the demo
Prices == {0, 450, 465}
\* the amounts the node application fills in
ZecAmount == 10000
TimelockBlocks == 144
MinPrice == 450
MaxPrice == 470

OrderIds == {OrderID_generate(0), OrderID_generate(1)}
PeerIds == {PeerID("A"), PeerID("B")}

SecretHash == Hash_from_bytes(SecretLiteral)

\* the SettlementTerms accept_terms builds from the latest price
SettlementTermsOf(order_id, price) ==
    [order_id          |-> order_id,
     zec_amount        |-> ZecAmount,
     stablecoin_amount |-> price * ZecAmount,
     stablecoin_type   |-> "USDC",
     maker_address     |-> "zs1maker...",
     taker_address     |-> "zs1taker...",
     secret_hash       |-> SecretHash,
     timelock_blocks   |-> TimelockBlocks]

\* the OrderDetails a maker reveals for an order
OrderDetailsOf(order_id, order_type, stablecoin) ==
    [order_id   |-> order_id,
     order_type |-> order_type,
     amount     |-> ZecAmount,
     min_price  |-> MinPrice,
     max_price  |-> MaxPrice,
     stablecoin |-> stablecoin]

\* the terms a caller may hand to accept_and_finalize: those of accept_terms,
\* and terms with nothing in them
TermsInputs(order_id) ==
    {SettlementTermsOf(order_id, p) : p \in Prices}
        \cup {[SettlementTermsOf(order_id, 0) EXCEPT !.zec_amount = 0,
                                                     !.timelock_blocks = 0]}

ProposalInputs(now) ==
    {[price |-> p, amount |-> ZecAmount, proposer |-> r, timestamp |-> now] :
        p \in Prices, r \in Roles}

\* signed settlements with each signature present or empty
SettlementInputs(order_id, now) ==
    LET terms == SettlementTermsOf(order_id, MinPrice)
    IN  {[terms           |-> terms,
          maker_signature |-> m,
          taker_signature |-> t,
          finalized_at    |-> now] : m, t \in {<<>>, sign_terms(terms)}}

\* messages that decode neither as a Proposal nor as OrderDetails: a details
\* request, bytes that are no JSON, a proposal without its timestamp, a
\* proposal of an unknown role and order details without their stablecoin
UnknownInputs(order_id) ==
    {to_vec_string(order_id),
     MalformedBytes,
     to_vec_struct([price |-> MinPrice, amount |-> ZecAmount, proposer |-> "Maker"]),
     to_vec_struct([price |-> MinPrice, amount |-> ZecAmount, proposer |-> "Broker",
                    timestamp |-> 0]),
     to_vec_struct([order_id |-> order_id, order_type |-> "Sell",
                    amount |-> ZecAmount, min_price |-> MinPrice,
                    max_price |-> MaxPrice])}

\* the messages an engine may be handed: proposals, order details and messages
\* of no known type
MessageInputs(order_id) ==
    {to_vec_struct(p) : p \in ProposalInputs(0)}
        \cup {to_vec_struct(OrderDetailsOf(order_id, "Sell", "USDC"))}
        \cup UnknownInputs(order_id)

NoSession == [state |-> [tag |-> "None"]]

SessionCall(op, arg, r) ==
    /\ sys_time < MaxCalls
    /\ session # NoSession
    /\ session' = r.self
    /\ called' = [op |-> op, arg |-> arg, err |-> r.err, before |-> session]
    /\ sys_time' = sys_time + 1
    /\ UNCHANGED <<active_sessions, coordVars, htlcVars, appVars, netVars, lockVars>>

CallNew ==
    /\ sys_time < MaxCalls
    /\ session = NoSession
    /\ \E o \in OrderIds, peer \in PeerIds :
            \/ /\ session' = new_maker(o, peer, sys_time)
               /\ called' = [op |-> "new_maker", arg |-> peer, err |-> "Ok",
                             before |-> session]
            \/ /\ session' = new_taker(o, peer, sys_time)
               /\ called' = [op |-> "new_taker", arg |-> peer, err |-> "Ok",
                             before |-> session]
    /\ sys_time' = sys_time + 1
    /\ UNCHANGED <<active_sessions, coordVars, htlcVars, appVars, netVars, lockVars>>

CallSetState ==
    \/ SessionCall("set_state", DetailsRequested(sys_time),
                   set_state(session, DetailsRequested(sys_time)))
    \/ \E o \in OrderIds :
        LET state == DetailsRevealed(OrderDetailsOf(o, "Sell", "USDC"), sys_time)
        IN  SessionCall("set_state", state, set_state(session, state))
    \/ SessionCall("set_state", PriceDiscovery(session.proposals),
                   set_state(session, PriceDiscovery(session.proposals)))
    \/ \E o \in OrderIds : \E settlement \in SettlementInputs(o, sys_time) :
        SessionCall("set_state", TermsAgreed(settlement),
                    set_state(session, TermsAgreed(settlement)))
    \/ SessionCall("set_state", Cancelled("timeout"),
                   set_state(session, Cancelled("timeout")))

CallAddProposal ==
    \E proposal \in ProposalInputs(sys_time) :
        SessionCall("add_proposal", proposal, add_proposal(session, proposal))

CallFinalize ==
    \E o \in OrderIds : \E settlement \in SettlementInputs(o, sys_time) :
        SessionCall("finalize", settlement, finalize(session, settlement))

CallCancel ==
    SessionCall("cancel", "late", Ok(cancel(session, "late")))

EngineCall(op, order_id, arg, r) ==
    /\ sys_time < MaxCalls
    /\ active_sessions' = r.active_sessions
    /\ called' = [op       |-> op,
                  order_id |-> order_id,
                  arg      |-> arg,
                  err      |-> r.err,
                  value    |-> r.value,
                  before   |-> active_sessions]
    /\ sys_time' = sys_time + 1
    /\ UNCHANGED <<session, coordVars, htlcVars, appVars, netVars, lockVars>>

CallRequestOrderDetails ==
    \E o \in OrderIds, peer \in PeerIds :
        EngineCall("request_order_details", o, peer,
                   request_order_details(active_sessions, o, peer, sys_time))

CallRevealOrderDetails ==
    \E o \in OrderIds, peer \in PeerIds :
        LET details == OrderDetailsOf(o, "Sell", "USDC")
        IN  EngineCall("reveal_order_details", o, details,
                       reveal_order_details(active_sessions, o, details, peer,
                                            sys_time))

CallProposeTerms ==
    \E o \in OrderIds, price \in Prices, amount \in {1, ZecAmount} :
        EngineCall("propose_terms", o, [price |-> price, amount |-> amount],
                   propose_terms(active_sessions, o, price, amount, sys_time))

CallAcceptAndFinalize ==
    \E o \in OrderIds : \E terms \in TermsInputs(o) :
        EngineCall("accept_and_finalize", o, terms,
                   accept_and_finalize(active_sessions, o, terms, sys_time))

CallHandleMessage ==
    \E o \in OrderIds : \E message \in MessageInputs(o) :
        EngineCall("handle_message", o, message,
                   handle_message(active_sessions, o, message, sys_time))

CallCancelNegotiation ==
    \E o \in OrderIds :
        EngineCall("cancel_negotiation", o, "late",
                   cancel_negotiation(active_sessions, o, "late"))

InitNegotiation ==
    /\ session = NoSession
    /\ active_sessions = <<>>
    /\ sys_time = 0
    /\ called = [op |-> "none", err |-> "Ok"]

----------------------------------------------------------------------------
(* The node application (cli/app.rs) over the TCP network manager          *)
(* (p2p/network_manager.rs): two nodes.                                    *)

Nodes == {"A", "B"}

\* an order expires one hour after its creation
ExpirySeconds == 3600

\* u64::to_be_bytes, for values below 2^32
to_be_bytes(n) ==
    [i \in 1..8 |-> IF i <= 4 THEN 0 ELSE (n \div (256 ^ (8 - i))) % 256]

\* Duration::as_secs of a time kept in milliseconds
as_secs(now) == now \div 1000

compute_commitment_hash(amount, salt) ==
    Hash_from_bytes(to_be_bytes(amount) \o salt)

\* every outcome of generate_random_salt committed to the amount, computed once
CommitmentHashOf == [seed \in Seeds |-> compute_commitment_hash(ZecAmount, RngBytes(seed))]

from_slice_OrderAnnouncement(data) ==
    from_slice_struct(data, {"order_id", "order_type", "stablecoin",
                             "encrypted_details", "proof_commitment",
                             "timestamp", "expiry"})

PeerConnected(peer_id) == [type |-> "PeerConnected", from |-> peer_id]
PeerDisconnected(peer_id) == [type |-> "PeerDisconnected", from |-> peer_id]
MessageReceived(from, data) == [type |-> "MessageReceived", from |-> from, data |-> data]

\* the frames written on the connections of node n by the sends in out, a
\* sequence of <<peer_id, message>>; a peer_id missing from the table gets none
RECURSIVE Written(_, _, _)
Written(w, n, out) ==
    IF out = <<>> THEN w
    ELSE LET peer_id == Head(out)[1]
             next == IF peer_id \in DOMAIN peers[n]
                     THEN [w EXCEPT ![<<n, peers[n][peer_id]>>] =
                                        Append(@, Head(out)[2])]
                     ELSE w
         IN  Written(next, n, Tail(out))

\* NetworkManager::send_to_peer
send_to_peer(n, peer_id) ==
    IF peer_id \in DOMAIN peers[n] THEN "Ok" ELSE "PeerNotFound"

\* no frame is on a connection and no event waits in a queue
Quiescent ==
    /\ \A link \in DOMAIN wire : wire[link] = <<>>
    /\ \A n \in Nodes : events[n] = <<>>

\* the commands of the happy negotiation of the two-node demo, in order
HappyCommands ==
    <<[op |-> "create_order", node |-> "A", price |-> 0],
      [op |-> "request_order_details", node |-> "B", price |-> 0],
      [op |-> "propose_price", node |-> "B", price |-> 450],
      [op |-> "propose_price", node |-> "A", price |-> 465],
      [op |-> "accept_terms", node |-> "B", price |-> 0]>>

\* how far the commands given so far follow HappyCommands, each given once the
\* messages of the one before were delivered and handled, B connected to A
Followed(command) ==
    IF /\ scenario.on
       /\ scenario.step < Len(HappyCommands)
       /\ command = HappyCommands[scenario.step + 1]
       /\ Quiescent
       /\ PeerID("A") \in DOMAIN peers["B"]
    THEN [on |-> TRUE, step |-> scenario.step + 1]
    ELSE [on |-> FALSE, step |-> 0]

\* a command of the user on node n returns err
Command(op, n, order_id, price, err) ==
    /\ sys_time < MaxCommands
    /\ sys_time' = sys_time + 1
    /\ called' = [op |-> op, node |-> n, order_id |-> order_id, err |-> err]
    /\ scenario' = Followed([op |-> op, node |-> n, price |-> price])
    /\ UNCHANGED <<session, active_sessions, coordVars, htlcVars, netVars, lockVars>>

\* BlackTraceApp::connect_to_peer on a, and the accept of listen_loop on b
connect_to_peer(a, b) ==
    /\ PeerID(b) \notin DOMAIN peers[a]
    /\ peers' = [peers EXCEPT ![a] = Insert(@, PeerID(b), b),
                              ![b] = Insert(@, PeerID(a), a)]
    /\ events' = [events EXCEPT ![a] = Append(@, PeerConnected(PeerID(b))),
                                ![b] = Append(@, PeerConnected(PeerID(a)))]
    /\ UNCHANGED <<orders, negotiation, wire, scenario>>
    /\ UNCHANGED <<negVars, coordVars, htlcVars, netVars, lockVars>>

create_order_at(n, amount, stablecoin, seed) ==
    LET order_id == OrderID_generate(sys_time)
        timestamp == as_secs(sys_time)
        announcement ==
            [order_id          |-> order_id,
             order_type        |-> "Sell",
             stablecoin        |-> stablecoin,
             encrypted_details |-> <<>>,
             proof_commitment  |-> CommitmentHashOf[seed],
             timestamp         |-> timestamp,
             expiry            |-> timestamp + ExpirySeconds]
        message == to_vec_struct(announcement)
        broadcast == [link \in DOMAIN wire |->
                        IF /\ link[1] = n
                           /\ \E peer_id \in DOMAIN peers[n] :
                                    peers[n][peer_id] = link[2]
                        THEN Append(wire[link], message)
                        ELSE wire[link]]
    IN  /\ orders' = [orders EXCEPT ![n] = Insert(@, order_id, announcement)]
        /\ wire' = broadcast
        /\ UNCHANGED <<negotiation, peers, events>>

\* create_order as a command of its own millisecond
create_order(n, amount, stablecoin, seed) ==
    /\ create_order_at(n, amount, stablecoin, seed)
    /\ Command("create_order", n, OrderID_generate(sys_time), 0, "Ok")

\* request_order_details that does not look the order up
app_request_order_details_any_order(n, order_id) ==
    IF DOMAIN peers[n] = {}
    THEN /\ Command("request_order_details", n, order_id, 0, "PeerNotFound")
         /\ UNCHANGED <<orders, negotiation, peers, wire, events>>
    ELSE \E maker_peer \in DOMAIN peers[n] :
            LET r == request_order_details(negotiation[n], order_id, maker_peer,
                                           sys_time)
            IN  /\ negotiation' = [negotiation EXCEPT ![n] = r.active_sessions]
                /\ wire' = Written(wire, n, <<<<maker_peer, r.value>>>>)
                /\ Command("request_order_details", n, order_id, 0,
                           send_to_peer(n, maker_peer))
                /\ UNCHANGED <<orders, peers, events>>

app_request_order_details(n, order_id) ==
    IF order_id \notin DOMAIN orders[n]
    THEN /\ Command("request_order_details", n, order_id, 0, "OrderNotFound")
         /\ UNCHANGED <<orders, negotiation, peers, wire, events>>
    ELSE IF DOMAIN peers[n] = {}
    THEN /\ Command("request_order_details", n, order_id, 0, "PeerNotFound")
         /\ UNCHANGED <<orders, negotiation, peers, wire, events>>
    ELSE \E maker_peer \in DOMAIN peers[n] :
            LET r == request_order_details(negotiation[n], order_id, maker_peer,
                                           sys_time)
            IN  /\ negotiation' = [negotiation EXCEPT ![n] = r.active_sessions]
                /\ wire' = Written(wire, n, <<<<maker_peer, r.value>>>>)
                /\ Command("request_order_details", n, order_id, 0,
                           send_to_peer(n, maker_peer))
                /\ UNCHANGED <<orders, peers, events>>

\* propose_price that looks the counterparty up before it proposes
propose_price_peer_first(n, order_id, price, amount) ==
    IF /\ order_id \in DOMAIN negotiation[n]
       /\ send_to_peer(n, negotiation[n][order_id].counterparty_peer_id) # "Ok"
    THEN /\ Command("propose_price", n, order_id, price, "PeerNotFound")
         /\ UNCHANGED <<orders, negotiation, peers, wire, events>>
    ELSE LET r == propose_terms(negotiation[n], order_id, price, amount, sys_time)
         IN  IF r.err # "Ok"
             THEN /\ Command("propose_price", n, order_id, price, r.err)
                  /\ UNCHANGED <<orders, negotiation, peers, wire, events>>
             ELSE LET counterparty ==
                         r.active_sessions[order_id].counterparty_peer_id
                  IN  /\ negotiation' = [negotiation EXCEPT ![n] = r.active_sessions]
                      /\ wire' = Written(wire, n, <<<<counterparty, r.value>>>>)
                      /\ Command("propose_price", n, order_id, price, "Ok")
                      /\ UNCHANGED <<orders, peers, events>>

propose_price(n, order_id, price, amount) ==
    LET r == propose_terms(negotiation[n], order_id, price, amount, sys_time)
    IN  IF r.err # "Ok"
        THEN /\ Command("propose_price", n, order_id, price, r.err)
             /\ UNCHANGED <<orders, negotiation, peers, wire, events>>
        ELSE LET counterparty ==
                    r.active_sessions[order_id].counterparty_peer_id
             IN  /\ negotiation' = [negotiation EXCEPT ![n] = r.active_sessions]
                 /\ wire' = Written(wire, n, <<<<counterparty, r.value>>>>)
                 /\ Command("propose_price", n, order_id, price,
                            send_to_peer(n, counterparty))
                 /\ UNCHANGED <<orders, peers, events>>

accept_terms(n, order_id) ==
    IF order_id \notin DOMAIN negotiation[n]
    THEN /\ Command("accept_terms", n, order_id, 0, "SessionNotFound")
         /\ UNCHANGED <<orders, negotiation, peers, wire, events>>
    ELSE IF ~latest_price(negotiation[n][order_id]).some
    THEN /\ Command("accept_terms", n, order_id, 0, "InvalidProposal")
         /\ UNCHANGED <<orders, negotiation, peers, wire, events>>
    ELSE LET price == latest_price(negotiation[n][order_id]).value
             terms == SettlementTermsOf(order_id, price)
             r == accept_and_finalize(negotiation[n], order_id, terms, sys_time)
         IN  /\ negotiation' = [negotiation EXCEPT ![n] = r.active_sessions]
             /\ Command("accept_terms", n, order_id, 0, r.err)
             /\ UNCHANGED <<orders, peers, wire, events>>

\* read_loop of the connection from peer `from` on node n: one frame read
read_loop(n, from) ==
    /\ wire[<<from, n>>] # <<>>
    /\ events' = [events EXCEPT ![n] =
                    Append(@, MessageReceived(PeerID(from), Head(wire[<<from, n>>])))]
    /\ wire' = [wire EXCEPT ![<<from, n>>] = Tail(@)]
    /\ UNCHANGED <<orders, negotiation, peers, scenario>>
    /\ UNCHANGED <<negVars, coordVars, htlcVars, netVars, lockVars>>

\* handle_network_event answering a message of no known type
handle_network_event_replying(n, event) ==
    LET same == [orders      |-> orders[n],
                 negotiation |-> negotiation[n],
                 out         |-> <<>>,
                 err         |-> "Ok"]
    IN  IF event.type # "MessageReceived" THEN same
        ELSE IF from_slice_OrderAnnouncement(event.data).some
        THEN LET announcement == from_slice_OrderAnnouncement(event.data).value
             IN  [same EXCEPT !.orders =
                        Insert(orders[n], announcement.order_id, announcement)]
        ELSE IF from_slice_OrderID(event.data).some
        THEN LET order_id == from_slice_OrderID(event.data).value
             IN  IF order_id \notin DOMAIN orders[n] THEN same
                 ELSE LET order == orders[n][order_id]
                          details == OrderDetailsOf(order_id, order.order_type,
                                                    order.stablecoin)
                          r == reveal_order_details(negotiation[n], order_id,
                                                    details, event.from, sys_time)
                      IN  IF r.err # "Ok" THEN [same EXCEPT !.err = r.err]
                          ELSE [same EXCEPT
                                    !.negotiation = r.active_sessions,
                                    !.out = <<<<event.from, r.value>>>>,
                                    !.err = send_to_peer(n, event.from)]
        ELSE IF from_slice_OrderDetails(event.data).some
        THEN LET details == from_slice_OrderDetails(event.data).value
                 r == handle_message(negotiation[n], details.order_id,
                                     event.data, sys_time)
             IN  [same EXCEPT !.negotiation = r.active_sessions, !.err = r.err]
        ELSE [same EXCEPT !.out = <<<<event.from, MalformedBytes>>>>]

\* what handle_network_event does on node n: the order table and the sessions
\* it leaves, the sends it makes and the error it returns
handle_network_event(n, event) ==
    LET same == [orders      |-> orders[n],
                 negotiation |-> negotiation[n],
                 out         |-> <<>>,
                 err         |-> "Ok"]
    IN  IF event.type # "MessageReceived" THEN same
        ELSE IF from_slice_OrderAnnouncement(event.data).some
        THEN LET announcement == from_slice_OrderAnnouncement(event.data).value
             IN  [same EXCEPT !.orders =
                        Insert(orders[n], announcement.order_id, announcement)]
        ELSE IF from_slice_OrderID(event.data).some
        THEN LET order_id == from_slice_OrderID(event.data).value
             IN  IF order_id \notin DOMAIN orders[n] THEN same
                 ELSE LET order == orders[n][order_id]
                          details == OrderDetailsOf(order_id, order.order_type,
                                                    order.stablecoin)
                          r == reveal_order_details(negotiation[n], order_id,
                                                    details, event.from, sys_time)
                      IN  IF r.err # "Ok" THEN [same EXCEPT !.err = r.err]
                          ELSE [same EXCEPT
                                    !.negotiation = r.active_sessions,
                                    !.out = <<<<event.from, r.value>>>>,
                                    !.err = send_to_peer(n, event.from)]
        ELSE IF from_slice_OrderDetails(event.data).some
        THEN LET details == from_slice_OrderDetails(event.data).value
                 r == handle_message(negotiation[n], details.order_id,
                                     event.data, sys_time)
             IN  [same EXCEPT !.negotiation = r.active_sessions, !.err = r.err]
        ELSE same

\* run_event_loop of node n: one event polled and handled
run_event_loop(n) ==
    /\ events[n] # <<>>
    /\ LET r == handle_network_event(n, Head(events[n]))
       IN  /\ orders' = [orders EXCEPT ![n] = r.orders]
           /\ negotiation' = [negotiation EXCEPT ![n] = r.negotiation]
           /\ wire' = Written(wire, n, r.out)
    /\ events' = [events EXCEPT ![n] = Tail(@)]
    /\ UNCHANGED <<peers, scenario>>
    /\ UNCHANGED <<negVars, coordVars, htlcVars, netVars, lockVars>>

\* the order IDs a user can name: those of the orders some node knows
KnownOrderIds == UNION {DOMAIN orders[n] : n \in Nodes}

Connect == \E a, b \in Nodes : a # b /\ connect_to_peer(a, b)

CreateOrder ==
    /\ Cardinality(KnownOrderIds) < MaxOrders
    /\ \E n \in Nodes : create_order(n, ZecAmount, "USDC", 0)

RequestOrderDetails ==
    \E n \in Nodes : \E o \in KnownOrderIds : app_request_order_details(n, o)

ProposePrice ==
    \E n \in Nodes : \E o \in KnownOrderIds : \E price \in Prices :
        propose_price(n, o, price, ZecAmount)

AcceptTerms == \E n \in Nodes : \E o \in KnownOrderIds : accept_terms(n, o)

ReadLoop == \E n, from \in Nodes : n # from /\ read_loop(n, from)

RunEventLoop == \E n \in Nodes : run_event_loop(n)

InitApp ==
    /\ orders = [n \in Nodes |-> <<>>]
    /\ negotiation = [n \in Nodes |-> <<>>]
    /\ peers = [n \in Nodes |-> <<>>]
    /\ wire = [link \in {<<a, b>> : a, b \in Nodes} \ {<<n, n>> : n \in Nodes} |-> <<>>]
    /\ events = [n \in Nodes |-> <<>>]
    /\ scenario = [on |-> TRUE, step |-> 0]

----------------------------------------------------------------------------
(* One node, A, that creates orders while its clock runs: a call of        *)
(* create_order reads the clock, and any number of calls fit in one        *)
(* millisecond.                                                            *)

StablecoinType == {"USDC", "USDT"}

\* create_order called on node A at the present millisecond
CreateOrderNow ==
    /\ \E stablecoin \in StablecoinType : \E seed \in Seeds :
            create_order_at("A", ZecAmount, stablecoin, seed)
    /\ called' = [op |-> "create_order", node |-> "A",
                  order_id |-> OrderID_generate(sys_time), err |-> "Ok"]
    /\ UNCHANGED <<session, active_sessions, sys_time, scenario>>
    /\ UNCHANGED <<coordVars, htlcVars, netVars, lockVars>>

\* SystemTime::now() moves on by a millisecond
ClockTick ==
    /\ sys_time < MaxMillis
    /\ sys_time' = sys_time + 1
    /\ UNCHANGED <<session, active_sessions, called>>
    /\ UNCHANGED <<appVars, coordVars, htlcVars, netVars, lockVars>>

----------------------------------------------------------------------------
(* One node, A, and a remote peer, B, that dials it, writes frames of any  *)
(* kind and may close the connection.                                      *)

\* the task of a reader whose read_loop returned an error: the disconnect
\* event is sent and the peer removed; what the stream held is not read
read_loop_ends(n, from) ==
    /\ PeerID(from) \in DOMAIN peers[n]
    /\ events' = [events EXCEPT ![n] = Append(@, PeerDisconnected(PeerID(from)))]
    /\ peers' = [peers EXCEPT ![n] =
                    [k \in DOMAIN @ \ {PeerID(from)} |-> @[k]]]
    /\ wire' = [wire EXCEPT ![<<from, n>>] = <<>>]
    /\ UNCHANGED <<orders, negotiation, scenario>>
    /\ UNCHANGED <<negVars, coordVars, htlcVars, netVars, lockVars>>

\* the frames the remote peer writes: an announcement, which has expired, a
\* details request, order details, bytes that are no JSON and half a proposal
PeerFrames ==
    LET order_id == OrderID_generate(0)
    IN  {to_vec_struct([order_id          |-> order_id,
                        order_type        |-> "Buy",
                        stablecoin        |-> "USDC",
                        encrypted_details |-> <<>>,
                        proof_commitment  |-> CommitmentHashOf[0],
                        timestamp         |-> 0,
                        expiry            |-> 0]),
         to_vec_string(order_id),
         to_vec_struct(OrderDetailsOf(order_id, "Buy", "USDC")),
         MalformedBytes,
         to_vec_struct([price |-> MaxPrice, amount |-> ZecAmount])}

\* the remote peer writes a frame, while fewer than MaxFrames frames wait on
\* the connection and in the event queue of A
PeerWrites ==
    /\ PeerID("B") \in DOMAIN peers["A"]
    /\ Len(wire[<<"B", "A">>]) + Len(events["A"]) + Len(wire[<<"A", "B">>])
            < MaxFrames
    /\ \E frame \in PeerFrames :
            wire' = [wire EXCEPT ![<<"B", "A">>] = Append(@, frame)]
    /\ UNCHANGED <<orders, negotiation, peers, events, scenario>>
    /\ UNCHANGED <<negVars, coordVars, htlcVars, netVars, lockVars>>

\* the remote peer reads what A has written to it
PeerReads ==
    /\ wire[<<"A", "B">>] # <<>>
    /\ wire' = [wire EXCEPT ![<<"A", "B">>] = <<>>]
    /\ UNCHANGED <<orders, negotiation, peers, events, scenario>>
    /\ UNCHANGED <<negVars, coordVars, htlcVars, netVars, lockVars>>

\* an order ID no node generates: OrderID::generate at a time not reached
UnknownOrderId == OrderID_generate(MaxCommands + MaxNodeCommands)

\* the commands of the user of node A on the orders announced to it
NodeCommand ==
    /\ sys_time < MaxNodeCommands
    /\ \/ \E o \in KnownOrderIds \cup {UnknownOrderId} :
                app_request_order_details("A", o)
       \/ \E o \in KnownOrderIds \cup {UnknownOrderId} :
                propose_price("A", o, MinPrice, ZecAmount)
       \/ \E o \in KnownOrderIds : accept_terms("A", o)

----------------------------------------------------------------------------
(* The TCP network manager (p2p/network_manager.rs) byte by byte: the two  *)
(* managers, the connections between them, the tasks that call             *)
(* send_to_peer and broadcast on A, and the reader task of each end of     *)
(* each connection.                                                        *)

\* the tasks that send on A
Tasks == {"t1", "t2"}

\* the message of the k-th call: k bytes k, so that no two calls send the same
\* message or the same length; shorter than 2^32 bytes
Payload(k) == [i \in 1..k |-> k]

\* the length prefix of a frame is four bytes
LenPrefix == 4

\* u32::to_be_bytes of message.len()
u32_to_be_bytes(n) ==
    [i \in 1..LenPrefix |-> (n \div (256 ^ (LenPrefix - i))) % 256]

\* u32::from_be_bytes
u32_from_be_bytes(b) == b[1] * 16777216 + b[2] * 65536 + b[3] * 256 + b[4]

\* the two ends of every connection there can be
Ends == (1..MaxNetOps) \X Nodes

\* the manager at the other end of connection c
Other(c, m) == IF conns[c].dialer = m THEN conns[c].listener ELSE conns[c].dialer

\* the address manager m listens on: its host and port 0; connection c leaves
\* its dialer from a port of its own, c
listen_addr(m) == <<m, 0>>

\* the PeerID manager m gives connection c: the address it dialed, or the
\* address the connection was accepted from, which no other connection has
PeerIdAt(c, m) ==
    IF conns[c].dialer = m THEN PeerID(listen_addr(conns[c].listener))
    ELSE PeerID(<<conns[c].dialer, c>>)

\* a tokio Mutex that always lets a task in
Free_for_all(holder) == TRUE

\* a tokio Mutex lets a task in when no task holds it
Free(holder) == holder = "none"

Idle == [op |-> "idle"]

\* the calls of send_to_peer and broadcast made so far
Calls == returned.count + Cardinality({t \in Tasks : task[t] # Idle})

\* the tasks are alike: a call is made by the first task that is idle
Caller(t) ==
    /\ task[t] = Idle
    /\ t = "t1" \/ task["t1"] # Idle

\* connect_to_peer on a and the accept of listen_loop on b: each inserts the
\* connection under its PeerID, sends PeerConnected and spawns its reader
Dial(a, b) ==
    /\ Len(conns) + Calls < MaxNetOps
    /\ Free(mutex.peers[a])
    /\ Free(mutex.peers[b])
    /\ LET c == Len(conns) + 1
       IN  /\ conns' = Append(conns, [dialer |-> a, listener |-> b])
           /\ table' = [table EXCEPT ![a] = Insert(@, PeerID(listen_addr(b)), c),
                                     ![b] = Insert(@, PeerID(<<a, c>>), c)]
           /\ emitted' = [emitted EXCEPT
                    ![<<c, a>>] = Append(@, PeerConnected(PeerID(listen_addr(b)))),
                    ![<<c, b>>] = Append(@, PeerConnected(PeerID(<<a, c>>)))]
           /\ reader' = [reader EXCEPT ![<<c, a>>] = "reading",
                                       ![<<c, b>>] = "reading"]
    /\ UNCHANGED <<mutex, stream, closed, task, passed, returned>>
    /\ UNCHANGED <<coordVars, htlcVars, negVars, appVars, lockVars>>

\* the connection breaks: the remote process ends, or the network fails
Close(c) ==
    /\ c \in 1..Len(conns)
    /\ c \notin closed
    /\ closed' = closed \cup {c}
    /\ UNCHANGED <<conns, table, mutex, stream, reader, task, emitted, passed,
                   returned>>
    /\ UNCHANGED <<coordVars, htlcVars, negVars, appVars, lockVars>>

\* what send_to_peer or broadcast returns once no peer is left:
\* send_to_peer the error of its send, broadcast Ok
ReturnOf(pc) ==
    [count     |-> returned.count + 1,
     op        |-> pc.op,
     err       |-> IF pc.op = "send_to_peer" /\ pc.failed # {}
                   THEN "MessageRouting" ELSE "Ok",
     start     |-> pc.start,
     attempted |-> pc.attempted,
     failed    |-> pc.failed]

\* send_to_peer called by task t: the peers mutex is taken and the peer looked
\* up; a peer missing from the table ends the call with PeerNotFound
CallSendToPeer(t) ==
    /\ Caller(t)
    /\ Len(conns) + Calls < MaxNetOps
    /\ Free(mutex.peers["A"])
    /\ \E peer_id \in DOMAIN table["A"] \cup {PeerID(listen_addr("C"))} :
       LET message == Payload(Calls + 1)
       IN   IF peer_id \notin DOMAIN table["A"]
            THEN /\ returned' = [count     |-> returned.count + 1,
                                 op        |-> "send_to_peer",
                                 err       |-> "PeerNotFound",
                                 start     |-> {peer_id},
                                 attempted |-> {},
                                 failed    |-> {}]
                 /\ UNCHANGED <<task, mutex>>
            ELSE /\ task' = [task EXCEPT ![t] =
                                [op        |-> "send_to_peer",
                                 message   |-> message,
                                 map       |-> table["A"],
                                 start     |-> {peer_id},
                                 todo      |-> {peer_id},
                                 cur       |-> "none",
                                 attempted |-> {},
                                 failed    |-> {}]]
                 /\ mutex' = [mutex EXCEPT !.peers["A"] = t]
                 /\ UNCHANGED returned
    /\ UNCHANGED <<conns, table, stream, closed, reader, emitted, passed>>
    /\ UNCHANGED <<coordVars, htlcVars, negVars, appVars, lockVars>>

\* broadcast called by task t: the peers mutex is taken for the whole loop
\* over the table
CallBroadcast(t) ==
    /\ Caller(t)
    /\ Len(conns) + Calls < MaxNetOps
    /\ Free(mutex.peers["A"])
    /\ LET message == Payload(Calls + 1)
       IN   LET pc == [op        |-> "broadcast",
                       message   |-> message,
                       map       |-> table["A"],
                       start     |-> DOMAIN table["A"],
                       todo      |-> DOMAIN table["A"],
                       cur       |-> "none",
                       attempted |-> {},
                       failed    |-> {}]
            IN  IF pc.todo = {}
                THEN /\ returned' = ReturnOf(pc)
                     /\ UNCHANGED <<task, mutex>>
                ELSE /\ task' = [task EXCEPT ![t] = pc]
                     /\ mutex' = [mutex EXCEPT !.peers["A"] = t]
                     /\ UNCHANGED returned
    /\ UNCHANGED <<conns, table, stream, closed, reader, emitted, passed>>
    /\ UNCHANGED <<coordVars, htlcVars, negVars, appVars, lockVars>>

\* the loop of broadcast giving up at the first send that fails
AfterSend_giving_up(pc, ok) ==
    [pc EXCEPT !.cur = "none",
               !.todo = IF ok THEN @ \ {pc.cur} ELSE {},
               !.attempted = @ \cup {pc.cur},
               !.failed = IF ok THEN @ ELSE @ \cup {pc.cur}]

\* the call once send_to_peer_internal has returned for the peer: a failure
\* is noted and the loop goes on to the peers left
AfterSend(pc, ok) ==
    [pc EXCEPT !.cur = "none",
               !.todo = @ \ {pc.cur},
               !.attempted = @ \cup {pc.cur},
               !.failed = IF ok THEN @ ELSE @ \cup {pc.cur}]

\* send_to_peer_internal for one peer of the call, up to its first write_all
\* and then its second: the writer mutex of the connection is taken and the
\* length prefix written, then the message. On a broken connection a write
\* fails, or is accepted and lost. When the send to the last peer is over the
\* call returns and the peers mutex is released
Write(t) ==
    /\ task[t] # Idle
    /\ \E peer_id \in IF task[t].cur = "none" THEN task[t].todo ELSE {task[t].cur} :
       LET c == task[t].map[peer_id]
           to == <<c, Other(c, "A")>>
           first == task[t].cur = "none"
           bytes == IF first THEN u32_to_be_bytes(Len(task[t].message))
                    ELSE task[t].message
       IN  /\ first => Free(mutex.writer[<<c, "A">>])
           /\ passed' = IF first THEN [passed EXCEPT ![to] = Append(@, task[t].message)]
                        ELSE passed
           /\ \E ok \in IF c \in closed THEN BOOLEAN ELSE {TRUE} :
                /\ stream' = IF ok /\ c \notin closed
                             THEN [stream EXCEPT ![to] = @ \o bytes]
                             ELSE stream
                /\ IF ok /\ first
                   THEN /\ task' = [task EXCEPT ![t].cur = peer_id]
                        /\ mutex' = [mutex EXCEPT !.writer[<<c, "A">>] = t]
                        /\ UNCHANGED returned
                   ELSE LET pc == AfterSend([task[t] EXCEPT !.cur = peer_id], ok)
                        IN  IF pc.todo # {}
                            THEN /\ task' = [task EXCEPT ![t] = pc]
                                 /\ mutex' = [mutex EXCEPT !.writer[<<c, "A">>] = "none"]
                                 /\ UNCHANGED returned
                            ELSE /\ task' = [task EXCEPT ![t] = Idle]
                                 /\ mutex' = [mutex EXCEPT !.writer[<<c, "A">>] = "none",
                                                           !.peers["A"] = "none"]
                                 /\ returned' = ReturnOf(pc)
    /\ UNCHANGED <<conns, table, closed, reader, emitted>>
    /\ UNCHANGED <<coordVars, htlcVars, negVars, appVars, lockVars>>

\* read_loop of connection c on manager m reads a frame, its length and then
\* as many bytes, and sends MessageReceived
ReadFrame(c, m) ==
    /\ reader[<<c, m>>] = "reading"
    /\ Len(stream[<<c, m>>]) >= LenPrefix
    /\ LET bytes == stream[<<c, m>>]
           len == u32_from_be_bytes(SubSeq(bytes, 1, LenPrefix))
       IN  /\ Len(bytes) >= LenPrefix + len
           /\ emitted' = [emitted EXCEPT ![<<c, m>>] =
                    Append(@, MessageReceived(PeerIdAt(c, m),
                            SubSeq(bytes, LenPrefix + 1, LenPrefix + len)))]
           /\ stream' = [stream EXCEPT ![<<c, m>>] =
                            SubSeq(bytes, LenPrefix + len + 1, Len(bytes))]
    /\ UNCHANGED <<conns, table, mutex, closed, reader, task, passed, returned>>
    /\ UNCHANGED <<coordVars, htlcVars, negVars, appVars, lockVars>>

\* a read of read_loop on a broken connection returns end-of-stream or an
\* error: read_loop returns Err, dropping the read half and the bytes not yet
\* read, and its task sends PeerDisconnected
ReadFails(c, m) ==
    /\ reader[<<c, m>>] = "reading"
    /\ c \in closed
    /\ reader' = [reader EXCEPT ![<<c, m>>] = "removing"]
    /\ stream' = [stream EXCEPT ![<<c, m>>] = <<>>]
    /\ emitted' = [emitted EXCEPT ![<<c, m>>] =
                        Append(@, PeerDisconnected(PeerIdAt(c, m)))]
    /\ UNCHANGED <<conns, table, mutex, closed, task, passed, returned>>
    /\ UNCHANGED <<coordVars, htlcVars, negVars, appVars, lockVars>>

\* a reader task that leaves the table as it is
remove_nothing(map, key) == map

\* HashMap::remove
remove(map, key) == [k \in DOMAIN map \ {key} |-> map[k]]

\* the task of the reader takes the peers mutex and removes the PeerID
Remove(c, m) ==
    /\ reader[<<c, m>>] = "removing"
    /\ Free(mutex.peers[m])
    /\ table' = [table EXCEPT ![m] = remove(@, PeerIdAt(c, m))]
    /\ reader' = [reader EXCEPT ![<<c, m>>] = "done"]
    /\ UNCHANGED <<conns, mutex, stream, closed, task, emitted, passed, returned>>
    /\ UNCHANGED <<coordVars, htlcVars, negVars, appVars, lockVars>>

InitNetwork ==
    /\ conns = <<>>
    /\ table = [m \in Nodes |-> <<>>]
    /\ mutex = [peers  |-> [m \in Nodes |-> "none"],
                writer |-> [e \in Ends |-> "none"]]
    /\ stream = [e \in Ends |-> <<>>]
    /\ closed = {}
    /\ reader = [e \in Ends |-> "none"]
    /\ task = [t \in Tasks |-> Idle]
    /\ emitted = [e \in Ends |-> <<>>]
    /\ passed = [e \in Ends |-> <<>>]
    /\ returned = [count |-> 0, op |-> "none", err |-> "Ok"]

----------------------------------------------------------------------------
(* The three mutexes of one BlackTraceApp, `network`, `negotiation` and    *)
(* `orders`, and the tasks of the node that take them: the event loop and  *)
(* a task calling the commands. A task is at a line of cli/app.rs, about   *)
(* to lock the mutex named there or to drop the guard it took; what the    *)
(* data decide (which event was polled, whether the order is known,        *)
(* whether a call returned Err) is a choice among the lines that follow.   *)
(* A guard that is a temporary of a statement is dropped where the         *)
(* statement ends; the guard taken in the condition of `if let` at line    *)
(* 249 lives until that `if let` ends at line 253, so the loop holds       *)
(* `network` while handle_network_event runs. A tokio Mutex is not         *)
(* re-entrant.                                                             *)

AppTasks == {"run_event_loop", "caller"}

Mutexes == {"network", "negotiation", "orders"}

\* a task that is in no command
NotCalling == <<0, "return">>

At(line, op, m, next) == <<line, op>> :> [m |-> m, next |-> next]

\* create_order: the local insert, then the broadcast
create_order_locks ==
    At(91, "lock", "orders", {<<93, "unlock">>})
    @@ At(93, "unlock", "orders", {<<97, "lock">>})
    @@ At(97, "lock", "network", {<<97, "unlock">>})
    @@ At(97, "unlock", "network", {NotCalling})

\* request_order_details: `orders` is a local of the function and is dropped
\* when it returns, at whichever `?` or `return` that is
request_order_details_locks ==
    At(112, "lock", "orders", {<<119, "lock">>, <<145, "unlock">>})
    @@ At(119, "lock", "network", {<<119, "unlock">>})
    @@ At(119, "unlock", "network", {<<131, "lock">>, <<145, "unlock">>})
    @@ At(131, "lock", "negotiation", {<<133, "unlock">>})
    @@ At(133, "unlock", "negotiation", {<<137, "lock">>, <<145, "unlock">>})
    @@ At(137, "lock", "network", {<<140, "unlock">>})
    @@ At(140, "unlock", "network", {<<145, "unlock">>})
    @@ At(145, "unlock", "orders", {NotCalling})

propose_price_locks ==
    At(151, "lock", "negotiation", {<<153, "unlock">>})
    @@ At(153, "unlock", "negotiation", {<<158, "lock">>, NotCalling})
    @@ At(158, "lock", "negotiation", {<<162, "unlock">>})
    @@ At(162, "unlock", "negotiation", {<<168, "lock">>, NotCalling})
    @@ At(168, "lock", "network", {<<171, "unlock">>})
    @@ At(171, "unlock", "network", {NotCalling})

accept_terms_locks ==
    At(183, "lock", "negotiation", {<<187, "unlock">>})
    @@ At(187, "unlock", "negotiation", {<<208, "lock">>, NotCalling})
    @@ At(208, "lock", "negotiation", {<<210, "unlock">>})
    @@ At(210, "unlock", "negotiation", {NotCalling})

\* run_event_loop with handle_network_event inside it: poll_events gives
\* nothing or an event that takes no mutex (253), an announcement (274), a
\* details request (285) or order details (321)
run_event_loop_locks ==
    At(249, "lock", "network",
       {<<253, "unlock">>, <<274, "lock">>, <<285, "lock">>, <<321, "lock">>})
    @@ At(274, "lock", "orders", {<<276, "unlock">>})
    @@ At(276, "unlock", "orders", {<<253, "unlock">>})
    @@ At(285, "lock", "orders", {<<299, "unlock">>, <<314, "unlock">>})
    @@ At(299, "unlock", "orders", {<<303, "lock">>})
    @@ At(303, "lock", "negotiation", {<<305, "unlock">>})
    @@ At(305, "unlock", "negotiation", {<<309, "lock">>, <<253, "unlock">>})
    @@ At(309, "lock", "network", {<<309, "unlock">>})
    @@ At(309, "unlock", "network", {<<253, "unlock">>})
    @@ At(314, "unlock", "orders", {<<253, "unlock">>})
    @@ At(321, "lock", "negotiation", {<<323, "unlock">>})
    @@ At(323, "unlock", "negotiation", {<<253, "unlock">>})
    @@ At(253, "unlock", "network", {<<249, "lock">>})

Code ==
    create_order_locks @@ request_order_details_locks @@ propose_price_locks
    @@ accept_terms_locks @@ run_event_loop_locks

\* the first lock of each command
Commands == {<<91, "lock">>, <<112, "lock">>, <<151, "lock">>, <<183, "lock">>}

\* the caller starts a command
CallCommand ==
    /\ running["caller"] = NotCalling
    /\ \E entry \in Commands : running' = [running EXCEPT !["caller"] = entry]
    /\ UNCHANGED guards
    /\ UNCHANGED <<coordVars, htlcVars, negVars, appVars, netVars>>

\* Mutex::lock().await of task t completes: the mutex was free
Lock(t) ==
    /\ running[t][2] = "lock"
    /\ guards[Code[running[t]].m] = "none"
    /\ guards' = [guards EXCEPT ![Code[running[t]].m] = t]
    /\ \E next \in Code[running[t]].next : running' = [running EXCEPT ![t] = next]
    /\ UNCHANGED <<coordVars, htlcVars, negVars, appVars, netVars>>

\* task t drops the guard it holds, and goes on or returns
Unlock(t) ==
    /\ running[t][2] = "unlock"
    /\ guards' = [guards EXCEPT ![Code[running[t]].m] = "none"]
    /\ \E next \in Code[running[t]].next : running' = [running EXCEPT ![t] = next]
    /\ UNCHANGED <<coordVars, htlcVars, negVars, appVars, netVars>>

InitLocks ==
    /\ guards = [m \in Mutexes |-> "none"]
    /\ running = [t \in AppTasks |->
                    IF t = "run_event_loop" THEN <<249, "lock">> ELSE NotCalling]

Init ==
    /\ InitCoordinator /\ InitHTLC /\ InitNegotiation /\ InitApp /\ InitNetwork
    /\ InitLocks

NextCoordinator == RunRequest \/ RunStatus

SpecCoordinator == Init /\ [][NextCoordinator]_vars

NextSelect == Deliver \/ SelectRequest \/ SelectStatus

SpecSelect == Init /\ [][NextSelect]_vars

\* select! polls its branches in a random order: a branch whose subscription
\* holds a message is taken in the end
FairSelect ==
    /\ SpecSelect
    /\ WF_vars(SelectRequest)
    /\ WF_vars(SelectStatus)

NextHTLC == CallLock \/ CallClaim \/ CallRefund \/ Tick

SpecHTLC == Init /\ [][NextHTLC]_vars

NextSession ==
    \/ CallNew
    \/ CallSetState
    \/ CallAddProposal
    \/ CallFinalize
    \/ CallCancel

SpecSession == Init /\ [][NextSession]_vars

NextEngine ==
    \/ CallRequestOrderDetails
    \/ CallRevealOrderDetails
    \/ CallProposeTerms
    \/ CallAcceptAndFinalize
    \/ CallHandleMessage
    \/ CallCancelNegotiation

SpecEngine == Init /\ [][NextEngine]_vars

NextApp ==
    \/ Connect
    \/ CreateOrder
    \/ RequestOrderDetails
    \/ ProposePrice
    \/ AcceptTerms
    \/ ReadLoop
    \/ RunEventLoop

SpecApp == Init /\ [][NextApp]_vars

NextOrders == CreateOrderNow \/ ClockTick

SpecOrders == Init /\ [][NextOrders]_vars

NextNode ==
    \/ connect_to_peer("B", "A")
    \/ PeerWrites
    \/ PeerReads
    \/ read_loop("A", "B")
    \/ read_loop_ends("A", "B")
    \/ run_event_loop("A")
    \/ NodeCommand

SpecNode == Init /\ [][NextNode]_vars

NextLocks ==
    \/ CallCommand
    \/ \E t \in AppTasks : Lock(t)
    \/ \E t \in AppTasks : Unlock(t)

SpecLocks == Init /\ [][NextLocks]_vars

NextNetwork ==
    \/ \E a, b \in Nodes : a # b /\ Dial(a, b)
    \/ \E c \in 1..MaxNetOps : Close(c)
    \/ \E t \in Tasks : CallSendToPeer(t)
    \/ \E t \in Tasks : CallBroadcast(t)
    \/ \E t \in Tasks : Write(t)
    \/ \E e \in Ends : ReadFrame(e[1], e[2])
    \/ \E e \in Ends : ReadFails(e[1], e[2])
    \/ \E e \in Ends : Remove(e[1], e[2])

SpecNetwork == Init /\ [][NextNetwork]_vars

\* the tokio runtime keeps polling every task that can go on: a write_all
\* that can complete does, and a reader task waiting for the peers mutex, which
\* is handed over in the order of the requests, gets it once it stays free
FairNetwork ==
    /\ SpecNetwork
    /\ \A t \in Tasks : WF_vars(Write(t))
    /\ \A e \in Ends : WF_vars(Remove(e[1], e[2]))

----------------------------------------------------------------------------
(* Properties of the settlement coordinator.                               *)

LockActions == {"alice_lock_zec", "bob_lock_usdc"}

IsReveal(n) == n.instruction_type = "secret_reveal"
IsHtlcParams(n) == n.instruction_type = "htlc_params"

\* the secret_reveal notifications published so far for proposal p
Reveals(p) ==
    {i \in DOMAIN published :
        IsReveal(published[i]) /\ published[i].proposal_id = p}

\* the message handled last published a notification / a secret_reveal
PublishedInStep == Len(published) > handled.n_published
RevealedInStep == PublishedInStep /\ IsReveal(published[Len(published)])

\* the message handled last was a lock event of a proposal with a SettlementState
LockHandled ==
    /\ handled.handler = "status"
    /\ handled.action \in LockActions
    /\ handled.before # NoSettlement

\* C1: a secret_reveal is published only when both lock flags of the
\* proposal's SettlementState are true at the moment of publication, a single
\* lock event never publishes the secret, and htlc_params never carries it.
C1_SecretOnlyWhenBothLocked ==
    /\ RevealedInStep =>
            /\ settlements[handled.proposal_id].zec_locked
            /\ settlements[handled.proposal_id].usdc_locked
    /\ \A i \in DOMAIN published :
            IsHtlcParams(published[i]) =>
                /\ "secret_hex" \notin DOMAIN published[i]
                /\ \A seed \in Seeds :
                        published[i].htlc_hash # hex_encode(RngBytes(seed))

\* C2: of the two lock events of a known proposal, in either order, the first
\* one handled publishes no secret_reveal and the second one publishes it.
C2_RevealOnSecondLockOnly ==
    LET b == handled.before
        first == LockHandled /\ ~b.zec_locked /\ ~b.usdc_locked
        second ==
            /\ LockHandled
            /\ \/ handled.action = "alice_lock_zec" /\ ~b.zec_locked /\ b.usdc_locked
               \/ handled.action = "bob_lock_usdc" /\ b.zec_locked /\ ~b.usdc_locked
    IN  /\ first => ~RevealedInStep
        /\ (second /\ ~handled.bus_failed) => RevealedInStep

\* the run so far is the happy path of proposal p: its request, then its
\* native lock, then its stable lock, each accepted by the bus
HappyPath(p) ==
    /\ utc_now = 3
    /\ handled.handler = "status"
    /\ handled.proposal_id = p
    /\ handled.action = "bob_lock_usdc"
    /\ ~handled.bus_failed
    /\ handled.before # NoSettlement
    /\ handled.before.status = "alice_locked"
    /\ handled.before.created_at = 0
    /\ handled.before.updated_at = 1

\* C3: at most one secret_reveal is ever published for a proposal_id, and the
\* happy path request, native_lock, stable_lock publishes exactly one.
C3_AtMostOneReveal ==
    \A p \in ProposalIds :
        /\ Cardinality(Reveals(p)) <= 1
        /\ HappyPath(p) => Cardinality(Reveals(p)) = 1

\* the secret of the SettlementState found by the message handled last had
\* been revealed before that message
RevealedBefore ==
    \E i \in 1..handled.n_published :
        /\ IsReveal(published[i])
        /\ published[i].proposal_id = handled.proposal_id
        /\ published[i].timestamp >= handled.before.created_at

\* C4: a lock event whose flag is already true leaves status and lock flags
\* unchanged, and any lock event after the reveal leaves the SettlementState
\* unchanged.
C4_RedeliveryIsNoOp ==
    LET b == handled.before
        s == settlements[handled.proposal_id]
        redelivered ==
            /\ LockHandled
            /\ \/ handled.action = "alice_lock_zec" /\ b.zec_locked
               \/ handled.action = "bob_lock_usdc" /\ b.usdc_locked
    IN  /\ redelivered =>
            /\ s.status = b.status
            /\ s.zec_locked = b.zec_locked
            /\ s.usdc_locked = b.usdc_locked
        /\ (LockHandled /\ RevealedBefore) => s = b

C12_TimelockOrdering ==
    \A i \in DOMAIN published :
        IsHtlcParams(published[i]) =>
            /\ {"timelock_x", "timelock_y"} \subseteq DOMAIN published[i]
            /\ published[i].timelock_y > published[i].timelock_x

\* C33: right after a secret_reveal has been published for a proposal its
\* SettlementState has status revealed, and only a proposal whose secret has
\* been published has status revealed.
C33_RevealedStatus ==
    /\ RevealedInStep => settlements[handled.proposal_id].status = "revealed"
    /\ \A p \in ProposalIds :
            (settlements[p] # NoSettlement /\ settlements[p].status = "revealed")
                => Reveals(p) # {}

\* the step handles a lock-status event that is to be discarded: its proposal
\* has no SettlementState, or its action is not recognised
DiscardedInStep ==
    /\ utc_now' # utc_now
    /\ handled'.handler = "status"
    /\ \/ handled'.before = NoSettlement
       \/ handled'.action \notin LockActions

\* C34: a lock-status event whose proposal has no SettlementState, or whose
\* action is not recognised, creates no SettlementState, changes none and
\* publishes nothing.
C34_UnknownEventDiscarded ==
    [][DiscardedInStep => settlements' = settlements /\ published' = published]_vars

\* a lock event of a proposal without a SettlementState has been handled while
\* the other proposal has one, with a notification published
C34_Witness ==
    /\ handled.handler = "status"
    /\ handled.action \in LockActions
    /\ handled.before = NoSettlement
    /\ \E p \in ProposalIds : settlements[p] # NoSettlement
    /\ published # <<>>

\* C35: the status of a SettlementState agrees with its lock flags: ready only
\* with both flags false, alice_locked only with the native flag true and the
\* stable flag false, both_locked or revealed only with both flags true.
C35_StatusMatchesFlags ==
    \A p \in ProposalIds :
        LET s == settlements[p]
        IN  s # NoSettlement =>
                /\ s.status = "ready" => ~s.zec_locked /\ ~s.usdc_locked
                /\ s.status = "alice_locked" => s.zec_locked /\ ~s.usdc_locked
                /\ s.status \in {"both_locked", "revealed"} =>
                        s.zec_locked /\ s.usdc_locked

\* the settlement request of proposal p and its two lock events have each
\* been delivered
AllDelivered(p) ==
    \A a \in {"request"} \cup LockActions :
        [proposal_id |-> p, action |-> a] \in inbox.delivered

\* C36: when the settlement request of a proposal and both of its lock events
\* have been delivered, a secret_reveal of the proposal is eventually
\* published, in whatever order the loop takes the messages of its two
\* subscriptions.
C36_RevealEventually ==
    \A p \in ProposalIds : AllDelivered(p) ~> (Reveals(p) # {})

\* C37: a settlement request for a proposal that has a SettlementState leaves
\* the secret, the hash and the lock flags of that state as they were.
C37_RepeatedRequestKeepsState ==
    (handled.handler = "request" /\ handled.before # NoSettlement) =>
        LET s == settlements[handled.proposal_id]
            b == handled.before
        IN  /\ s.secret = b.secret
            /\ s.hash_hex = b.hash_hex
            /\ s.zec_locked = b.zec_locked
            /\ s.usdc_locked = b.usdc_locked

----------------------------------------------------------------------------
(* Properties of the HTLC escrow.                                          *)

\* the account the instruction executed last addressed, before and after it
Before == last.accounts[last.hash_lock]
After == htlc[last.hash_lock]

\* the instruction executed last left every account and every wallet as it was
NothingChanged == htlc = last.accounts /\ lamports = last.wallets

\* C6: claimed and refunded are never both true on an HTLC account, and both
\* are false right after a successful lock.
C6_NeverClaimedAndRefunded ==
    /\ \A h \in HashLocks :
            htlc[h] # NoAccount => ~(htlc[h].claimed /\ htlc[h].refunded)
    /\ (last.op = "lock" /\ last.err = "Ok") =>
            ~After.claimed /\ ~After.refunded

\* an account has been refunded and a claim with a matching secret by its
\* receiver has been tried on it
C6_Witness ==
    /\ last.op = "claim"
    /\ Before # NoAccount
    /\ Before.refunded
    /\ last.caller = Before.receiver
    /\ hash160(last.secret) = last.hash_lock

\* C7: on an existing account claim succeeds exactly when HASH160(secret) is
\* the hash_lock, the caller is the receiver and neither flag is set, whatever
\* the clock says; a successful claim sets claimed and moves exactly amount
\* from the escrow to the receiver, a failed one changes nothing.
C7_ClaimSucceedsIff ==
    (last.op = "claim" /\ Before # NoAccount) =>
        /\ last.err = "Ok" <=>
                /\ hash160(last.secret) = last.hash_lock
                /\ last.caller = Before.receiver
                /\ ~Before.claimed
                /\ ~Before.refunded
        /\ last.err = "Ok" =>
                /\ htlc = [last.accounts EXCEPT ![last.hash_lock] =
                              [Before EXCEPT !.claimed = TRUE,
                                             !.lamports = @ - Before.amount]]
                /\ lamports = [last.wallets EXCEPT
                                  ![Before.receiver] = @ + Before.amount]
        /\ last.err # "Ok" => NothingChanged

\* a claim has succeeded at or after the account's timeout
C7_Witness ==
    /\ last.op = "claim"
    /\ last.err = "Ok"
    /\ last.now >= Before.timeout
    /\ After.claimed

\* C8: once claimed or refunded is true, every claim and every refund on the
\* account fails and changes nothing: a claim after a refund with
\* AlreadyRefunded, a claim or a refund after a claim with AlreadyClaimed.
C8_SettledAccountRejectsAll ==
    (/\ last.op \in {"claim", "refund"}
     /\ Before # NoAccount
     /\ (Before.claimed \/ Before.refunded)) =>
        /\ last.err # "Ok"
        /\ NothingChanged
        /\ (last.op = "claim" /\ Before.refunded) => last.err = "AlreadyRefunded"
        /\ Before.claimed => last.err = "AlreadyClaimed"

\* the sender has asked for a refund, after the timeout, of an account that
\* was claimed
C8_Witness ==
    /\ last.op = "refund"
    /\ Before # NoAccount
    /\ Before.claimed
    /\ last.caller = Before.sender
    /\ last.now >= Before.timeout
    /\ last.err = "AlreadyClaimed"

\* C9: on a locked account that is neither claimed nor refunded, a refund by
\* the sender fails with TimeoutNotReached and changes nothing while
\* now < timeout, and succeeds and sets refunded when now >= timeout; a refund
\* never succeeds for another caller.
C9_RefundOnlyAfterTimeout ==
    (/\ last.op = "refund"
     /\ Before # NoAccount
     /\ ~Before.claimed
     /\ ~Before.refunded) =>
        /\ (last.caller = Before.sender /\ last.now < Before.timeout) =>
                last.err = "TimeoutNotReached" /\ NothingChanged
        /\ (last.caller = Before.sender /\ last.now >= Before.timeout) =>
                last.err = "Ok" /\ After.refunded
        /\ last.caller # Before.sender => last.err # "Ok"

\* the sender has been refunded at the very second of the timeout
C9_Witness ==
    /\ last.op = "refund"
    /\ last.err = "Ok"
    /\ last.now = Before.timeout
    /\ After.refunded

\* C10 as stated: lock succeeds only if timeout > now, amount > 0 and no
\* account exists for hash_lock; it fails with InvalidTimeout when
\* timeout <= now and with InvalidAmount when amount = 0; a failed lock
\* creates no account and moves no funds.
C10_LockErrorsAsStated ==
    last.op = "lock" =>
        /\ last.err = "Ok" =>
                /\ last.timeout > last.now
                /\ last.amount > 0
                /\ Before = NoAccount
        /\ last.timeout <= last.now => last.err = "InvalidTimeout"
        /\ last.amount = 0 => last.err = "InvalidAmount"
        /\ last.err # "Ok" => NothingChanged

\* the Lock accounts context could create the account: none existed for
\* hash_lock and the sender could pay for it
AccountCreated ==
    /\ Before = NoAccount
    /\ last.wallets[last.caller] >= RentExemptMinimum

\* C10 amended: lock succeeds only if timeout > now, amount > 0 and no account
\* exists for hash_lock; when its account can be created it fails with
\* InvalidTimeout if timeout <= now and with InvalidAmount if amount = 0 and
\* timeout > now; a failed lock creates no account and moves no funds.
C10_LockErrors ==
    last.op = "lock" =>
        /\ last.err = "Ok" =>
                /\ last.timeout > last.now
                /\ last.amount > 0
                /\ Before = NoAccount
        /\ (AccountCreated /\ last.timeout <= last.now) =>
                last.err = "InvalidTimeout"
        /\ (AccountCreated /\ last.timeout > last.now /\ last.amount = 0) =>
                last.err = "InvalidAmount"
        /\ last.err # "Ok" => NothingChanged

\* a lock of amount 0 with a timeout that is not in the future has been
\* refused
C10_Witness ==
    /\ last.op = "lock"
    /\ last.amount = 0
    /\ last.timeout = last.now
    /\ last.err = "InvalidTimeout"

\* the account the instruction executed last addressed was locked and neither
\* claimed nor refunded
Open(a) == a # NoAccount /\ ~a.claimed /\ ~a.refunded

\* C11: after a lock followed by a successful refund the sender's balance is
\* its balance before the lock; after a lock followed by a successful claim
\* the receiver's balance has grown by exactly the locked amount; and in both
\* cases nothing of what the sender paid in at lock time stays in the escrow.
C11_EscrowBalances ==
    /\ (last.op = "refund" /\ last.err = "Ok") =>
            /\ lamports[Before.sender] = pre_lock[Before.sender]
            /\ After.lamports = 0
    /\ (last.op = "claim" /\ last.err = "Ok") =>
            /\ lamports[Before.receiver] =
                    last.wallets[Before.receiver] + Before.amount
            /\ After.lamports = 0

\* C13: while now < timeout on an account that is locked and neither claimed
\* nor refunded, a claim by the receiver with a pre-image of the hash_lock
\* succeeds, no other instruction of any caller succeeds or changes anything,
\* and so no account is ever refunded before its timeout.
C13_ClaimWindow ==
    /\ \A h \in HashLocks :
            (htlc[h] # NoAccount /\ htlc[h].refunded) => clock >= htlc[h].timeout
    /\ (/\ last.op \in {"lock", "claim", "refund"}
        /\ Open(Before)
        /\ last.now < Before.timeout) =>
            /\ (/\ last.op = "claim"
                /\ last.caller = Before.receiver
                /\ hash160(last.secret) = last.hash_lock) =>
                    last.err = "Ok" /\ After.claimed
            /\ last.err = "Ok" =>
                    last.op = "claim" /\ last.caller = Before.receiver
            /\ last.err # "Ok" => NothingChanged

\* the receiver has claimed, before the timeout and after the clock has
\* moved, an account on which a refund could have been tried
C13_Witness ==
    /\ last.op = "claim"
    /\ last.err = "Ok"
    /\ last.now > 0
    /\ last.now < Before.timeout
    /\ After.claimed

----------------------------------------------------------------------------
(* Properties of the negotiation session and engine.                       *)

EngineOps == {"request_order_details", "reveal_order_details", "propose_terms",
              "accept_and_finalize", "handle_message", "cancel_negotiation"}

\* the engine method called last found a session under its order ID
HadSession == called.op \in EngineOps /\ called.order_id \in DOMAIN called.before

\* that session, before and after the call
SessionBefore == called.before[called.order_id]
SessionAfter == active_sessions[called.order_id]

WasTerminal == HadSession /\ is_terminal(SessionBefore.state)

\* the engine method called last carried a proposal for the session
CarriedProposal ==
    \/ called.op = "propose_terms"
    \/ called.op = "handle_message" /\ from_slice_Proposal(called.arg).some

\* C14: once the session held for an order ID is in TermsAgreed or Cancelled,
\* no operation of the engine changes its state, proposals, role or
\* counterparty.
C14_TerminalAbsorbing ==
    WasTerminal =>
        /\ SessionAfter.state = SessionBefore.state
        /\ SessionAfter.proposals = SessionBefore.proposals
        /\ SessionAfter.local_role = SessionBefore.local_role
        /\ SessionAfter.counterparty_peer_id = SessionBefore.counterparty_peer_id

\* C15: cancel_negotiation on a session that is already terminal returns
\* InvalidStateTransition and leaves the session state unchanged.
C15_CancelTerminalIsError ==
    (called.op = "cancel_negotiation" /\ WasTerminal) =>
        /\ called.err = "InvalidStateTransition"
        /\ SessionAfter.state = SessionBefore.state

\* C16: on a session in TermsAgreed or Cancelled, add_proposal, propose_terms
\* and handle_message carrying a Proposal return InvalidStateTransition and
\* leave the proposal list and the state unchanged.
C16_ProposalAfterFinalRejected ==
    /\ \A o \in DOMAIN active_sessions :
            is_terminal(active_sessions[o].state) =>
                \A proposal \in ProposalInputs(sys_time) :
                    add_proposal(active_sessions[o], proposal)
                        = Err("InvalidStateTransition", active_sessions[o])
    /\ (WasTerminal /\ CarriedProposal) =>
            /\ called.err = "InvalidStateTransition"
            /\ SessionAfter.proposals = SessionBefore.proposals
            /\ SessionAfter.state = SessionBefore.state

\* a proposal has arrived in a message for a session that was finalized with
\* a proposal on its list
C16_Witness ==
    /\ called.op = "handle_message"
    /\ from_slice_Proposal(called.arg).some
    /\ HadSession
    /\ SessionBefore.state.tag = "TermsAgreed"
    /\ called.err = "InvalidStateTransition"

\* C17: a session in TermsAgreed holds a settlement whose two signatures are
\* non-empty, and finalize with an empty signature fails with InvalidProposal
\* and leaves the session unchanged.
C17_SignaturesPresent ==
    /\ session.state.tag = "TermsAgreed" =>
            /\ session.state.settlement.maker_signature # <<>>
            /\ session.state.settlement.taker_signature # <<>>
    /\ (/\ called.op = "finalize"
        /\ \/ called.arg.maker_signature = <<>>
           \/ called.arg.taker_signature = <<>>) =>
            /\ called.err = "InvalidProposal"
            /\ session = called.before

\* C18: accept_and_finalize on a session whose proposal list is empty fails
\* and leaves the session non-terminal, and no session is in TermsAgreed with
\* an empty proposal list.
C18_NoAgreementWithoutProposal ==
    /\ \A o \in DOMAIN active_sessions :
            active_sessions[o].state.tag = "TermsAgreed" =>
                active_sessions[o].proposals # <<>>
    /\ (/\ called.op = "accept_and_finalize"
        /\ HadSession
        /\ ~is_terminal(SessionBefore.state)
        /\ SessionBefore.proposals = <<>>) =>
            /\ called.err # "Ok"
            /\ ~is_terminal(SessionAfter.state)

\* the sessions held for the other order IDs are those held before the call
OthersUnchanged ==
    /\ DOMAIN active_sessions \ {called.order_id}
            = DOMAIN called.before \ {called.order_id}
    /\ \A o \in DOMAIN called.before \ {called.order_id} :
            active_sessions[o] = called.before[o]

\* C21: propose_terms on a non-terminal session appends exactly one Proposal
\* with the given price and amount whose proposer is the session's local role,
\* and the state becomes PriceDiscovery; for an order with no session it fails
\* with SessionNotFound and creates no session.
C21_ProposeAppendsOne ==
    called.op = "propose_terms" =>
        /\ OthersUnchanged
        /\ ~HadSession =>
                /\ called.err = "SessionNotFound"
                /\ active_sessions = called.before
        /\ (HadSession /\ ~is_terminal(SessionBefore.state)) =>
                /\ called.err = "Ok"
                /\ SessionAfter.proposals =
                        Append(SessionBefore.proposals,
                               [price     |-> called.arg.price,
                                amount    |-> called.arg.amount,
                                proposer  |-> SessionBefore.local_role,
                                timestamp |-> sys_time - 1])
                /\ SessionAfter.state = PriceDiscovery(SessionAfter.proposals)
                /\ SessionAfter.local_role = SessionBefore.local_role

\* a taker has proposed on a session that already held a proposal
C21_Witness ==
    /\ called.op = "propose_terms"
    /\ called.err = "Ok"
    /\ HadSession
    /\ SessionBefore.local_role = "Taker"
    /\ Len(SessionBefore.proposals) = 1
    /\ Len(SessionAfter.proposals) = 2

\* C22: the proposal list of a session is append-only in receipt order: a
\* successful add_proposal puts its proposal at the end and leaves the earlier
\* ones as they were, no other method changes the list, and latest_price is
\* the price of the proposal appended last, None while the list is empty.
C22_ProposalsAppendOnly ==
    /\ (session # NoSession /\ called.before # NoSession) =>
            IF called.op = "add_proposal" /\ called.err = "Ok"
            THEN /\ session.proposals = Append(called.before.proposals, called.arg)
                 /\ latest_price(session) = Some(called.arg.price)
            ELSE /\ session.proposals = called.before.proposals
                 /\ latest_price(session) = latest_price(called.before)
    /\ (session # NoSession /\ session.proposals = <<>>) =>
            latest_price(session) = None

\* two proposals in a row came from the same side at different prices
C22_Witness ==
    /\ called.op = "add_proposal"
    /\ called.err = "Ok"
    /\ Len(called.before.proposals) = 1
    /\ called.before.proposals[1].proposer = called.arg.proposer
    /\ called.before.proposals[1].price # called.arg.price
    /\ latest_price(session) = Some(called.arg.price)

\* C23: after a successful reveal_order_details for an order ID the session
\* held for that order has local role Maker and state DetailsRevealed, whether
\* the call created the session or found it.
C23_RevealMakesMaker ==
    (called.op = "reveal_order_details" /\ called.err = "Ok") =>
        /\ SessionAfter.local_role = "Maker"
        /\ SessionAfter.state.tag = "DetailsRevealed"

\* the message handled last decodes neither as a Proposal nor as OrderDetails
UnknownMessage ==
    /\ called.op = "handle_message"
    /\ ~from_slice_Proposal(called.arg).some
    /\ ~from_slice_OrderDetails(called.arg).some

\* C25: for bytes that decode neither as a Proposal nor as OrderDetails
\* handle_message returns the Unknown action and leaves every session
\* unchanged, whether or not a session exists for the order ID.
C25_UnknownMessageIsNoOp ==
    UnknownMessage =>
        /\ called.err = "Ok"
        /\ called.value = "Unknown"
        /\ active_sessions = called.before

\* bytes that are no JSON were handled for an order without a session while
\* another order had one
C25_Witness ==
    /\ UnknownMessage
    /\ called.arg = MalformedBytes
    /\ ~HadSession
    /\ called.before # <<>>
    /\ called.value = "Unknown"

----------------------------------------------------------------------------
(* Properties of the node application.                                     *)

\* C19: the SettlementTerms of every session in TermsAgreed have
\* zec_amount > 0, stablecoin_amount > 0 and timelock_blocks of at least one
\* block, whatever proposals came before the acceptance.
C19_AgreedTermsArePositive ==
    \A n \in Nodes : \A o \in DOMAIN negotiation[n] :
        negotiation[n][o].state.tag = "TermsAgreed" =>
            LET terms == negotiation[n][o].state.settlement.terms
            IN  /\ terms.zec_amount > 0
                /\ terms.stablecoin_amount > 0
                /\ terms.timelock_blocks >= 1

\* the step is the command op given to node n for order o
Commanded(op, n, o) ==
    /\ sys_time' = sys_time + 1
    /\ called'.op = op
    /\ called'.node = n
    /\ called'.order_id = o

\* C24: request_order_details for an order the node does not know fails with
\* OrderNotFound, creates no negotiation session and sends nothing to any peer.
C24_UnknownOrderRequest ==
    [][\A n \in Nodes : \A o \in KnownOrderIds \cup {UnknownOrderId} :
          (Commanded("request_order_details", n, o) /\ o \notin DOMAIN orders[n]) =>
              /\ called'.err = "OrderNotFound"
              /\ negotiation' = negotiation
              /\ wire' = wire
              /\ orders' = orders]_vars

\* the details of an unknown order were requested on a node with a peer, and
\* nothing was written to the peer
C24_Witness ==
    /\ called.op = "request_order_details"
    /\ called.order_id \notin DOMAIN orders[called.node]
    /\ called.err = "OrderNotFound"
    /\ DOMAIN peers[called.node] # {}
    /\ DOMAIN negotiation[called.node] = {}
    /\ wire[<<"A", "B">>] = <<>>

UnknownFrame(event) ==
    /\ event.type = "MessageReceived"
    /\ ~from_slice_OrderAnnouncement(event.data).some
    /\ ~from_slice_OrderID(event.data).some
    /\ ~from_slice_OrderDetails(event.data).some
    /\ ~from_slice_Proposal(event.data).some

\* C29: a frame that decodes as no known message is delivered as an event
\* and dropped when handled: reading it and handling it leave the peer in the
\* connection table, the frames behind it on the connection, the orders and
\* the sessions as they were and write nothing; the frames behind it are read
\* and handled like any other.
C29_MalformedFrameDropped ==
    [][\A n \in Nodes :
          /\ \A from \in Nodes \ {n} :
                (/\ wire[<<from, n>>] # <<>>
                 /\ UnknownFrame(MessageReceived(PeerID(from), Head(wire[<<from, n>>])))
                 /\ Len(events'[n]) = Len(events[n]) + 1
                 /\ peers' = peers) =>
                    /\ events'[n] = Append(events[n],
                            MessageReceived(PeerID(from), Head(wire[<<from, n>>])))
                    /\ wire' = [wire EXCEPT ![<<from, n>>] = Tail(@)]
                    /\ orders' = orders
                    /\ negotiation' = negotiation
          /\ (/\ events[n] # <<>>
              /\ UnknownFrame(Head(events[n]))
              /\ Len(events'[n]) = Len(events[n]) - 1) =>
                    /\ events'[n] = Tail(events[n])
                    /\ peers' = peers
                    /\ wire' = wire
                    /\ orders' = orders
                    /\ negotiation' = negotiation]_vars

\* bytes that are no JSON wait first in the event queue of A, a session is
\* open, and the announcement written after them on the same connection is
\* behind them
C29_Witness ==
    /\ Len(events["A"]) = 2
    /\ UnknownFrame(events["A"][1])
    /\ events["A"][2].type = "MessageReceived"
    /\ from_slice_OrderAnnouncement(events["A"][2].data).some
    /\ DOMAIN negotiation["A"] # {}
    /\ events["A"][1].from = events["A"][2].from
    /\ events["A"][1].from \in DOMAIN peers["A"]

\* C32: a call of create_order yields an OrderID that is not in the order table
\* of its node, whenever it is made, so that no entry of the table is ever
\* overwritten.
C32_OrderIdsUnique ==
    [][\A n \in Nodes : \A o \in DOMAIN orders[n] :
            o \in DOMAIN orders'[n] /\ orders'[n][o] = orders[n][o]]_vars

\* C31: an announcement that enters the order table of a node, from
\* create_order or from a frame received, has an expiry greater than its
\* timestamp and in the future: an announcement received whose expiry is not
\* in the future is discarded.
C31_ExpiredDiscarded ==
    [][\A n \in Nodes : \A o \in DOMAIN orders'[n] :
            (o \notin DOMAIN orders[n] \/ orders[n][o] # orders'[n][o]) =>
                /\ orders'[n][o].expiry > orders'[n][o].timestamp
                /\ orders'[n][o].expiry > as_secs(sys_time)]_vars

\* the session of node n for the order is in TermsAgreed at price 465 after
\* two proposals
AgreedAt465(n, o) ==
    /\ o \in DOMAIN negotiation[n]
    /\ negotiation[n][o].state.tag = "TermsAgreed"
    /\ latest_price(negotiation[n][o]) = Some(465)
    /\ Len(negotiation[n][o].proposals) = 2

\* C20: when A has created an order, B has requested its details and proposed
\* 450, A has proposed 465 and B has accepted, and every message is delivered
\* and handled, the sessions of A and of B for the order are in TermsAgreed
\* with latest_price 465 and two proposals.
C20_HappyNegotiation ==
    (/\ scenario.on
     /\ scenario.step = Len(HappyCommands)
     /\ Quiescent) =>
        \A o \in DOMAIN orders["A"] : AgreedAt465("A", o) /\ AgreedAt465("B", o)

\* ---------------------------------------------------------------------
\* Properties of the network manager

\* s is a prefix of t
IsPrefix(s, t) == Len(s) <= Len(t) /\ \A i \in 1..Len(s) : s[i] = t[i]

\* the events of one type that the reader of end e has sent, in order
EventsOf(e, type) == SelectSeq(emitted[e], LAMBDA event : event.type = type)

\* the payloads of the MessageReceived events of end e, in order
Received(e) ==
    LET messages == EventsOf(e, "MessageReceived")
    IN  [i \in 1..Len(messages) |-> messages[i].data]

\* C27: for every connection, the payloads of the MessageReceived events its
\* reader has emitted are a prefix of the payloads passed to send_to_peer and
\* broadcast for that connection, same order and same bytes, whatever tasks
\* sent them; and the first event of the connection is the PeerConnected of
\* the peer the messages are from.
C27_PerConnectionFifo ==
    \A e \in Ends :
        /\ IsPrefix(Received(e), passed[e])
        /\ emitted[e] # <<>> =>
                /\ emitted[e][1].type = "PeerConnected"
                /\ \A i \in 1..Len(emitted[e]) : emitted[e][i].from = emitted[e][1].from

\* two calls have sent on one connection and its reader has emitted both
\* messages
C27_Witness ==
    \E e \in Ends :
        /\ passed[e] = <<Payload(1), Payload(2)>>
        /\ Received(e) = passed[e]
        /\ returned.count = 2

\* what the events of end e say of the end of its reader: none of them is a
\* PeerDisconnected while it reads, and once its read has failed exactly one
\* is, the last of them
DisconnectedOnce(e) ==
    IF reader[e] \in {"removing", "done"}
    THEN /\ Len(EventsOf(e, "PeerDisconnected")) = 1
         /\ emitted[e][Len(emitted[e])] = PeerDisconnected(PeerIdAt(e[1], e[2]))
    ELSE EventsOf(e, "PeerDisconnected") = <<>>

\* the reader of end e is over and its PeerID is in the table no more
Removed(e) ==
    /\ reader[e] = "done"
    /\ PeerIdAt(e[1], e[2]) \notin DOMAIN table[e[2]]

\* C28: when the read of a connection has returned end-of-stream or an error,
\* its reader has emitted exactly one PeerDisconnected for the peer, no
\* MessageReceived of the connection comes after it, and the peer is
\* eventually removed from the connection table.
C28_DisconnectCleansUp ==
    /\ [](\A e \in Ends : DisconnectedOnce(e))
    /\ \A e \in Ends : (reader[e] = "removing") ~> Removed(e)

\* a reader that had emitted a message has emitted PeerDisconnected and has
\* removed its peer
C28_Witness ==
    \E e \in Ends :
        /\ Removed(e)
        /\ Len(emitted[e]) = 3
        /\ emitted[e][2].type = "MessageReceived"

\* C30: broadcast attempts a send to every peer that is in the connection
\* table when it is called, whichever of the sends fail, and returns Ok.
C30_BroadcastSkipsFailures ==
    returned.op = "broadcast" =>
        /\ returned.err = "Ok"
        /\ returned.attempted = returned.start

\* a broadcast has returned whose send to one peer failed and whose send to
\* another peer was written
C30_Witness ==
    /\ returned.op = "broadcast"
    /\ returned.failed # {}
    /\ returned.attempted \ returned.failed # {}
    /\ \E e \in Ends : e[2] = "B" /\ Received(e) # <<>>

\* C39: the entry under a PeerID leaves the table of a manager only when the
\* connection stored under it has ended: the end of an older connection to
\* the same address never removes the entry of the newer live one
C39_RemovedOnlyWhenEnded ==
    [][\A m \in Nodes : \A peer_id \in DOMAIN table[m] :
            peer_id \notin DOMAIN table'[m] => table[m][peer_id] \in closed]_vars

\* C40: a session of the engine is in PriceDiscovery, holding its own list of
\* proposals, exactly when it is not terminal and has a proposal: revealing
\* or receiving order details after the first proposal does not take it back
\* to DetailsRevealed
C40_PriceDiscoveryIffProposals ==
    \A o \in DOMAIN active_sessions :
        (active_sessions[o].state = PriceDiscovery(active_sessions[o].proposals))
            <=> (/\ ~is_terminal(active_sessions[o].state)
                 /\ active_sessions[o].proposals # <<>>)

----------------------------------------------------------------------------
(* The mutexes of the node application                                     *)

\* task t is at a lock() of a mutex that is held
Waits(t) == running[t][2] = "lock" /\ guards[Code[running[t]].m] # "none"

Holder(t) == guards[Code[running[t]].m]

\* task t waits for a mutex whose holder cannot release it: the holder is t
\* itself, or it waits in turn for a mutex held by t or by itself
WaitsForever(t) ==
    /\ Waits(t)
    /\ \/ Holder(t) = t
       \/ Waits(Holder(t)) /\ Holder(Holder(t)) \in {t, Holder(t)}

\* C38: no task of the node waits forever on the network, negotiation or
\* orders mutex, whatever the interleaving of the event loop with the
\* commands; the details request of a known order is answered and the loop
\* polls again
C38_NoTaskWaitsForever == \A t \in AppTasks : ~WaitsForever(t)

====
